---- MODULE Spec2Model ----
(***************************************************************************)
(* Model of the LLM-guided browser automation agent of                     *)
(* src/services/automation.py: trigger_automation spawns one background    *)
(* thread per run; the thread launches a browser, runs the control loop    *)
(* (extract, read page, decide, execute, count waits) and then keeps the   *)
(* browser alive before closing it.                                        *)
(***************************************************************************)
EXTENDS Integers, Sequences, FiniteSets, TLC

(***************************************************************************)
(* Bounds of the model.                                                    *)
(***************************************************************************)
\* Largest step budget a run is configured with (MAX_LLM_STEPS is a module
\* global that callers overwrite before triggering a run).
MaxSteps == 4
\* The idle window, in seconds, the run is configured with.
MaxKeepAlive == 3
\* Largest number of elements one extraction returns in the model.
MaxElements == 1

(***************************************************************************)
(* Text.  A Python str is a sequence of one-character strings.             *)
(***************************************************************************)
UpperCase == <<"A","B","C","D","E","F","G","H","I","J","K","L","M",
               "N","O","P","Q","R","S","T","U","V","W","X","Y","Z">>
LowerCase == <<"a","b","c","d","e","f","g","h","i","j","k","l","m",
               "n","o","p","q","r","s","t","u","v","w","x","y","z">>

Lower(ch) ==
    IF \E k \in 1..Len(UpperCase) : UpperCase[k] = ch
    THEN LowerCase[CHOOSE k \in 1..Len(UpperCase) : UpperCase[k] = ch]
    ELSE ch

\* str.lower()
lower(s) == [i \in 1..Len(s) |-> Lower(s[i])]

\* kw in text
Contains(text, kw) ==
    \E i \in 0..(Len(text) - Len(kw)) :
        \A j \in 1..Len(kw) : text[i + j] = kw[j]

keywords ==
    { <<"p","a","y","m","e","n","t">>,
      <<"c","h","e","c","k","o","u","t">>,
      <<"p","a","y"," ","n","o","w">>,
      <<"c","a","r","d"," ","d","e","t","a","i","l","s">>,
      <<"b","i","l","l","i","n","g">>,
      <<"c","r","e","d","i","t"," ","c","a","r","d">>,
      <<"d","e","b","i","t"," ","c","a","r","d">>,
      <<"u","p","i">>,
      <<"r","a","z","o","r","p","a","y">>,
      <<"s","t","r","i","p","e">>,
      <<"p","a","y","t","m">>,
      <<"p","h","o","n","e","p","e">>,
      <<"c","o","n","f","i","r","m"," ","b","o","o","k","i","n","g">>,
      <<"p","r","o","c","e","e","d"," ","t","o"," ","p","a","y">> }

\* A variant of the heuristic that compares without lower-casing.
IsPaymentPageCaseSensitive(url, title) ==
    \E kw \in keywords : Contains(url \o <<" ">> \o title, kw)

_is_payment_page(url, title) ==
    LET combined == lower(url \o <<" ">> \o title)
    IN  \E kw \in keywords : Contains(combined, kw)

\* The value url and title take when reading them raises.
Unknown == <<"u","n","k","n","o","w","n">>

\* The pages the browser can show: [url, title].
Pages ==
    << [url   |-> <<"r","e","d","b","u","s",".","i","n","/">>,
        title |-> <<"B","u","s">>],
       [url   |-> <<"b","o","o","k","i","n","g",".","c","o","m","/","b">>,
        title |-> <<"C","h","e","c","k","o","u","t"," ","-"," ","B","o","o","k","i","n","g">>],
       [url   |-> <<"x",".","i","n","/","p","a","y">>,
        title |-> <<"N","o","w">>] >>

PageIds == 1..Len(Pages)

(***************************************************************************)
(* Model replies.  A reply is a sequence of tokens: "{" and "}", member    *)
(* tokens ("key:value", one JSON member each; separators are elided),      *)
(* whole non-object JSON values ("[1]", "2", "null"), whitespace ("ws")    *)
(* and prose words.                                                        *)
(***************************************************************************)
Members ==
    ( "action:click"           :> <<"action", "click">>
   @@ "action:type"            :> <<"action", "type">>
   @@ "action:press_enter"     :> <<"action", "press_enter">>
   @@ "action:scroll"          :> <<"action", "scroll">>
   @@ "action:wait"            :> <<"action", "wait">>
   @@ "action:done"            :> <<"action", "done">>
   @@ "action:hover"           :> <<"action", "hover">>
   @@ "element:0"              :> <<"element", "0">>
   @@ "element:1"              :> <<"element", "1">>
   @@ "element:-1"             :> <<"element", "-1">>
   @@ "element:null"           :> <<"element", "null">>
   @@ "text:Goa"               :> <<"text", "Goa">>
   @@ "reason:go"              :> <<"reason", "go">>
   @@ "reason:LLM unavailable" :> <<"reason", "LLM unavailable">> )

\* The JSON integers the replies use, by their text.
IntText == ("0" :> 0) @@ ("1" :> 1) @@ ("-1" :> -1)

IsMember(tok) == tok \in DOMAIN Members

\* str.strip()
RECURSIVE strip(_)
strip(s) ==
    IF s = <<>> THEN s
    ELSE IF Head(s) = "ws" THEN strip(Tail(s))
    ELSE IF s[Len(s)] = "ws" THEN strip(SubSeq(s, 1, Len(s) - 1))
    ELSE s

\* Scans the members of an object from position i; the position of the "}"
\* that closes the object, or 0 when the text is not a well-formed object.
RECURSIVE ScanItems(_, _)
ScanItems(toks, i) ==
    IF i > Len(toks) THEN 0
    ELSE IF toks[i] = "}" THEN i
    ELSE IF IsMember(toks[i]) THEN ScanItems(toks, i + 1)
    ELSE IF toks[i] = "{"
         THEN LET e == ScanItems(toks, i + 1)
              IN  IF e = 0 THEN 0 ELSE ScanItems(toks, e + 1)
    ELSE 0

\* The dict of a well-formed object: its top-level members, a later member
\* replacing an earlier one of the same key; a nested object is the value
\* of the key "meta".
RECURSIVE TopItems(_, _, _)
TopItems(toks, i, acc) ==
    IF toks[i] = "}" THEN acc
    ELSE IF IsMember(toks[i])
         THEN TopItems(toks, i + 1,
                       (Members[toks[i]][1] :> Members[toks[i]][2]) @@ acc)
    ELSE TopItems(toks, ScanItems(toks, i + 1) + 1, ("meta" :> "object") @@ acc)

EmptyDict == [k \in {} |-> ""]

JSONDecodeError == [ok |-> FALSE]

\* json.loads
json_loads(text) ==
    LET toks == strip(text)
    IN  IF toks = <<"[1]">> THEN [ok |-> TRUE, value |-> [type |-> "list"]]
        ELSE IF toks = <<"2">> THEN [ok |-> TRUE, value |-> [type |-> "int"]]
        ELSE IF toks = <<"null">> THEN [ok |-> TRUE, value |-> [type |-> "null"]]
        ELSE IF /\ Len(toks) >= 2
                /\ toks[1] = "{"
                /\ ScanItems(toks, 2) = Len(toks)
             THEN [ok |-> TRUE,
                   value |-> [type |-> "dict", items |-> TopItems(toks, 2, EmptyDict)]]
        ELSE JSONDecodeError

\* re.search(r'\{[^}]+\}', text): the leftmost "{" that is followed by at
\* least one token other than "}" and then a "}"; <<>> when there is none.
re_search(text) ==
    LET Closes(i) == {j \in (i + 1)..Len(text) : text[j] = "}"}
        FirstClose(i) == CHOOSE j \in Closes(i) : \A k \in Closes(i) : j <= k
        Starts == {i \in 1..Len(text) :
                      /\ text[i] = "{"
                      /\ Closes(i) # {}
                      /\ FirstClose(i) > i + 1}
    IN  IF Starts = {} THEN <<>>
        ELSE LET i == CHOOSE a \in Starts : \A b \in Starts : a <= b
             IN  SubSeq(text, i, FirstClose(i))

\* The raw replies a provider returns in the model.
Replies ==
    { <<"{", "action:click", "element:0", "reason:go", "}">>,
      <<"{", "action:click", "element:1", "reason:go", "}">>,
      <<"{", "action:click", "element:-1", "reason:go", "}">>,
      <<"{", "action:click", "element:null", "reason:go", "}">>,
      <<"{", "action:type", "text:Goa", "reason:go", "}">>,
      <<"{", "action:type", "element:0", "text:Goa", "reason:go", "}">>,
      <<"{", "action:scroll", "reason:go", "}">>,
      <<"{", "action:press_enter", "reason:go", "}">>,
      <<"{", "action:wait", "reason:go", "}">>,
      <<"ws", "{", "action:done", "reason:go", "}", "ws">>,
      <<"{", "action:hover", "element:0", "reason:go", "}">>,
      <<"{", "}">>,
      <<"Sure!", "{", "action:click", "element:0", "reason:go", "}", "ok">>,
      <<"Use", "{", "braces", "}", "then", "{", "action:click", "element:0",
        "reason:go", "}">>,
      <<"Sure!", "{", "action:click", "element:0", "{", "reason:go", "}", "}", "ok">>,
      <<"Sorry">>,
      <<>>,
      <<"[1]">>,
      <<"2">>,
      <<"null">> }

\* What one HTTP call to a provider comes to: the call raises (network
\* error, timeout), answers with a non-200 status, answers 200 with a body
\* the code cannot read, or answers 200 with a reply.
ProviderOutcomes ==
    { [status |-> "raise"], [status |-> "500"], [status |-> "200", body |-> "bad"] }
    \cup { [status |-> "200", body |-> "ok", content |-> r] : r \in Replies }

\* The replies and the outcomes the control loop is run against.
LoopReplies ==
    { <<"{", "action:wait", "reason:go", "}">>,
      <<"{", "action:click", "element:0", "reason:go", "}">>,
      <<"{", "action:scroll", "reason:go", "}">>,
      <<"ws", "{", "action:done", "reason:go", "}", "ws">>,
      <<"{", "}">>,
      <<"[1]">> }

LoopOutcomes ==
    { [status |-> "raise"] }
    \cup { [status |-> "200", body |-> "ok", content |-> r] : r \in LoopReplies }

Answers(outcome) == outcome.status = "200" /\ outcome.body = "ok"

LLMUnavailable == <<"{", "action:wait", "reason:LLM unavailable", "}">>

\* A variant of the provider chain that gives up with an empty reply.
CallLlmEmptyDefault(key, groq, ollama) ==
    IF key /\ Answers(groq)
    THEN [text |-> strip(groq.content), calls |-> <<"groq">>]
    ELSE [text  |-> IF Answers(ollama) THEN strip(ollama.content) ELSE <<>>,
          calls |-> IF key THEN <<"groq", "ollama">> ELSE <<"ollama">>]

\* A variant of the provider chain that asks the fallback as well when the
\* primary has answered.
CallLlmAsksBoth(key, groq, ollama) ==
    IF key /\ Answers(groq)
    THEN [text |-> strip(groq.content), calls |-> <<"groq", "ollama">>]
    ELSE [text  |-> IF Answers(ollama) THEN strip(ollama.content) ELSE LLMUnavailable,
          calls |-> IF key THEN <<"groq", "ollama">> ELSE <<"ollama">>]

\* _call_llm: key is whether GROQ_API_KEY is set; groq and ollama are what
\* the two HTTP calls come to (ollama is read only when it is called).
_call_llm(key, groq, ollama) ==
    IF key /\ Answers(groq)
    THEN [text |-> strip(groq.content), calls |-> <<"groq">>]
    ELSE [text  |-> IF Answers(ollama) THEN strip(ollama.content) ELSE LLMUnavailable,
          calls |-> IF key THEN <<"groq", "ollama">> ELSE <<"ollama">>]

ParseError == [type |-> "dict", items |-> [action |-> "wait", reason |-> "Parse error"]]

\* The parsing half of _ask_llm_action: strict parse, then the first
\* {...} substring, then the "Parse error" wait.
ParseAction(response) ==
    LET first == json_loads(response)
        match == re_search(response)
    IN  IF first.ok THEN first.value
        ELSE IF match # <<>> /\ json_loads(match).ok THEN json_loads(match).value
        ELSE ParseError

_ask_llm_action(key, groq, ollama) ==
    LET response == _call_llm(key, groq, ollama)
    IN  [action |-> ParseAction(response.text), calls |-> response.calls]

\* dict.get(k, default)
get(dict, k, default) == IF k \in DOMAIN dict THEN dict[k] ELSE default

IsDict(value) == value.type = "dict"

(***************************************************************************)
(* Action Executor.  ops lists the page operations the executor invoked,   *)
(* in order ("locate" is _build_locator); fault.at is the position in that *)
(* order of the operation that raises (0: none raises) and fault.tab says  *)
(* whether the Tab key press of the recovery raises as well.  The result   *)
(* says whether the loop goes on (cont) and whether an exception left the  *)
(* executor (raised).                                                      *)
(***************************************************************************)
Faults == [at : 0..4, tab : BOOLEAN]

NoFault == [at |-> 0, tab |-> FALSE]

\* A variant of the recovery without the try around the Tab key press.
AttemptTabUnguarded(wanted, fault) ==
    IF fault.at \in 1..Len(wanted)
    THEN [ops |-> SubSeq(wanted, 1, fault.at) \o <<"Tab">>, raised |-> fault.tab]
    ELSE [ops |-> wanted, raised |-> FALSE]

\* The try of one click or type attempt: its operations, cut at the one
\* that raises and followed by the Tab key press of the except clause when
\* one raised; what the Tab key press raises is swallowed.
Attempt(wanted, fault) ==
    IF fault.at \in 1..Len(wanted)
    THEN [ops |-> SubSeq(wanted, 1, fault.at) \o <<"Tab">>, raised |-> FALSE]
    ELSE [ops |-> wanted, raised |-> FALSE]

\* A variant of the executor whose range test lets idx = len(elements) pass.
ExecuteActionOffByOne(action, n, fault) ==
    LET action_type == get(action, "action", "wait")
        element == get(action, "element", "-1")
    IN  IF action_type = "done"
        THEN [cont |-> FALSE, ops |-> <<>>, raised |-> FALSE]
        ELSE IF action_type = "wait"
        THEN [cont |-> TRUE, ops |-> <<>>, raised |-> FALSE]
        ELSE IF action_type = "scroll"
        THEN [cont |-> TRUE, ops |-> <<"wheel">>, raised |-> fault.at = 1]
        ELSE IF action_type = "press_enter"
        THEN [cont |-> TRUE, ops |-> <<"Enter">>, raised |-> fault.at = 1]
        ELSE IF element \notin DOMAIN IntText
        THEN \* idx < 0 raises TypeError on an index that is not a number
             [cont |-> TRUE, ops |-> <<>>, raised |-> TRUE]
        ELSE IF IntText[element] < 0 \/ IntText[element] > n
        THEN [cont |-> TRUE, ops |-> <<>>, raised |-> FALSE]
        ELSE IF IntText[element] = n
        THEN \* elements[idx] raises IndexError
             [cont |-> TRUE, ops |-> <<>>, raised |-> TRUE]
        ELSE IF action_type = "click"
        THEN [cont |-> TRUE, ops |-> Attempt(<<"locate", "click">>, fault).ops,
              raised |-> Attempt(<<"locate", "click">>, fault).raised]
        ELSE IF action_type = "type"
        THEN [cont |-> TRUE,
              ops |-> Attempt(<<"locate", "click", "fill", "type">>, fault).ops,
              raised |-> Attempt(<<"locate", "click", "fill", "type">>, fault).raised]
        ELSE [cont |-> TRUE, ops |-> <<>>, raised |-> FALSE]

\* A variant of the executor that returns the stop signal for wait as well.
ExecuteActionWaitStops(action, n, fault) ==
    LET action_type == get(action, "action", "wait")
        element == get(action, "element", "-1")
    IN  IF action_type = "done"
        THEN [cont |-> FALSE, ops |-> <<>>, raised |-> FALSE]
        ELSE IF action_type = "wait"
        THEN [cont |-> FALSE, ops |-> <<>>, raised |-> FALSE]
        ELSE IF action_type = "scroll"
        THEN [cont |-> TRUE, ops |-> <<"wheel">>, raised |-> fault.at = 1]
        ELSE IF action_type = "press_enter"
        THEN [cont |-> TRUE, ops |-> <<"Enter">>, raised |-> fault.at = 1]
        ELSE IF element \notin DOMAIN IntText
        THEN [cont |-> TRUE, ops |-> <<>>, raised |-> TRUE]
        ELSE IF IntText[element] < 0 \/ IntText[element] >= n
        THEN [cont |-> TRUE, ops |-> <<>>, raised |-> FALSE]
        ELSE IF action_type = "click"
        THEN [cont |-> TRUE, ops |-> Attempt(<<"locate", "click">>, fault).ops,
              raised |-> Attempt(<<"locate", "click">>, fault).raised]
        ELSE IF action_type = "type"
        THEN [cont |-> TRUE,
              ops |-> Attempt(<<"locate", "click", "fill", "type">>, fault).ops,
              raised |-> Attempt(<<"locate", "click", "fill", "type">>, fault).raised]
        ELSE [cont |-> TRUE, ops |-> <<>>, raised |-> FALSE]

_execute_action(action, n, fault) ==
    LET action_type == get(action, "action", "wait")
        element == get(action, "element", "-1")
    IN  IF action_type = "done"
        THEN [cont |-> FALSE, ops |-> <<>>, raised |-> FALSE]
        ELSE IF action_type = "wait"
        THEN [cont |-> TRUE, ops |-> <<>>, raised |-> FALSE]
        ELSE IF action_type = "scroll"
        THEN [cont |-> TRUE, ops |-> <<"wheel">>, raised |-> fault.at = 1]
        ELSE IF action_type = "press_enter"
        THEN [cont |-> TRUE, ops |-> <<"Enter">>, raised |-> fault.at = 1]
        ELSE IF element \notin DOMAIN IntText
        THEN \* idx < 0 raises TypeError on an index that is not a number
             [cont |-> TRUE, ops |-> <<>>, raised |-> TRUE]
        ELSE IF IntText[element] < 0 \/ IntText[element] >= n
        THEN [cont |-> TRUE, ops |-> <<>>, raised |-> FALSE]
        ELSE IF action_type = "click"
        THEN [cont |-> TRUE, ops |-> Attempt(<<"locate", "click">>, fault).ops,
              raised |-> Attempt(<<"locate", "click">>, fault).raised]
        ELSE IF action_type = "type"
        THEN [cont |-> TRUE,
              ops |-> Attempt(<<"locate", "click", "fill", "type">>, fault).ops,
              raised |-> Attempt(<<"locate", "click", "fill", "type">>, fault).raised]
        ELSE [cont |-> TRUE, ops |-> <<>>, raised |-> FALSE]

(***************************************************************************)
(* State.                                                                  *)
(***************************************************************************)
VARIABLES
    MAX_LLM_STEPS,  \* the module global, as configured for this run
    caller,         \* where the caller of trigger_automation is
    result,         \* what trigger_automation returned to it
    pc,             \* where the run's background thread is
    browser,        \* the browser handle: "none", "open", "closed"
    windowOpen,     \* FALSE once the user has closed the window
    page,           \* the page the browser shows (index into Pages)
    step,           \* the loop variable of the control loop
    waits,          \* consecutive-wait counter
    history,        \* the history lines, oldest first
    elements,       \* number of elements of this step's extraction
    shown,          \* the page whose url and title this step read (0: "unknown")
    llm_action,     \* the Decision Engine's result of this step
    reason,         \* why the control loop ended ("running" before)
    elapsed,        \* seconds since _keep_alive took its start time
    probes,         \* liveness probes made by _keep_alive
    keepAlives,     \* calls of _keep_alive
    closeCalls,     \* invocations of browser.close()
    request,        \* the inputs of one decision taken on its own
    decision,       \* what _ask_llm_action made of request
    call,           \* the inputs of one execution taken on its own
    outcome,        \* what _execute_action made of call
    threads,        \* concurrent runs: where the thread of each run is
    frames,         \* concurrent runs: the locals of each call of _automate_with_llm
    dom,            \* the document one extraction on its own reads
    extracted,      \* what the passes of _get_page_elements over dom returned
    route,          \* the inputs of one site lookup taken on its own
    routed,         \* what the lookup made of route
    target,         \* the element and the page one locator build is given
    located,        \* what _build_locator made of target
    history_text,   \* the history section of the prompt of the last decision
    _active_session,\* the module global of session.py
    returned        \* what the last call of process_session_input returned

vars == << MAX_LLM_STEPS, caller, result, pc, browser, windowOpen, page, step,
           waits, history, elements, shown, llm_action, reason, elapsed,
           probes, keepAlives, closeCalls, request, decision, call, outcome,
           threads, frames, dom, extracted, route, routed, target, located,
           history_text, _active_session, returned >>

client == << caller, result >>
locals == << step, waits, history, elements, shown, llm_action >>
keepalive == << elapsed, probes, keepAlives, closeCalls >>
later == << target, located, history_text, _active_session, returned >>
single == << request, decision, call, outcome, threads, frames, dom, extracted,
            route, routed, later >>
run == << caller, result, pc, browser, windowOpen, page, step, waits, history,
          elements, shown, llm_action, reason, elapsed, probes, keepAlives,
          closeCalls >>

BROWSER_KEEP_ALIVE == MaxKeepAlive

NoAction == [type |-> "none"]

None == [type |-> "none"]

\* The variables of the locator, the prompt and the hotel dialog, unused.
LaterUnused ==
    /\ target = None
    /\ located = None
    /\ history_text = None
    /\ _active_session = None
    /\ returned = None

\* Nothing has been triggered.
Idle ==
    /\ caller = "ready"
    /\ result = "unset"
    /\ pc = "not_started"
    /\ browser = "none"
    /\ windowOpen = FALSE
    /\ page = 1
    /\ step = 0
    /\ waits = 0
    /\ history = <<>>
    /\ elements = 0
    /\ shown = 0
    /\ llm_action = NoAction
    /\ reason = "running"
    /\ elapsed = 0
    /\ probes = 0
    /\ keepAlives = 0
    /\ closeCalls = 0

Init ==
    /\ MAX_LLM_STEPS \in 1..MaxSteps
    /\ Idle
    /\ request = None
    /\ decision = None
    /\ call = None
    /\ outcome = None
    /\ threads = None
    /\ frames = None
    /\ dom = None
    /\ extracted = None
    /\ route = None
    /\ routed = None
    /\ LaterUnused

(***************************************************************************)
(* The caller: trigger_automation starts the thread and returns.           *)
(***************************************************************************)
\* A variant that joins the thread before it returns.
ReturnsAfterJoin(threadPc) == threadPc \in {"finished", "crashed"}

\* Whether trigger_automation, having started the thread that is now at
\* threadPc, can return: it does not join the thread.
ReturnsAfterStart(threadPc) == TRUE

trigger_automation ==
    /\ caller = "ready"
    /\ caller' = "in_trigger"
    /\ pc' = "safe_run"
    /\ UNCHANGED << MAX_LLM_STEPS, single, result, browser, windowOpen, page, locals,
                    reason, keepalive >>

TriggerReturns ==
    /\ caller = "in_trigger"
    /\ ReturnsAfterStart(pc)
    /\ caller' = "returned"
    /\ result' = "None"
    /\ UNCHANGED << MAX_LLM_STEPS, single, pc, browser, windowOpen, page, locals,
                    reason, keepalive >>

(***************************************************************************)
(* The run's thread: _safe_run and _automate_with_llm.                     *)
(***************************************************************************)
\* The places of _automate_with_llm an exception is raised at.
Sites == {"launch", "goto", "extract", "read", "decide", "execute", "count",
          "with_exit"}

\* A variant without the try of _safe_run.
HandlerNoSafeRun(site) ==
    IF site \in {"goto", "extract", "read", "decide", "execute", "count"}
    THEN "except"
    ELSE "crashed"

\* A variant whose try of _automate_with_llm ends before the loop.
HandlerLoopOutsideTry(site) ==
    IF site \in {"goto"}
    THEN "except"
    ELSE IF site \in Sites THEN "safe_except"
    ELSE "crashed"

\* The pc of the except clause that catches an exception raised at site:
\* the try of _automate_with_llm encloses page.goto and the loop, the try
\* of _safe_run encloses all of _automate_with_llm, and an exception that
\* no try encloses ends the thread ("crashed").
Handler(site) ==
    IF site \in {"goto", "extract", "read", "decide", "execute", "count"}
    THEN "except"
    ELSE IF site \in Sites THEN "safe_except"
    ELSE "crashed"

\* A variant in which a browser that was started stays open when a later
\* call of _launch_browser raises.
FailedLaunchLeavesBrowser(raised) == IF raised = "launch" THEN "none" ELSE "open"

\* The browser after a call of _launch_browser has raised: launch started
\* none; when new_context or new_page raises, the exception leaves the with
\* statement of sync_playwright, which stops the browser that was started.
FailedLaunch(raised) == IF raised = "launch" THEN "none" ELSE "closed"

_launch_browser ==
    /\ pc = "safe_run"
    /\ \E raised \in {"nothing", "launch", "new_context", "new_page"} :
          IF raised = "nothing"
          THEN /\ browser' = "open"
               /\ windowOpen' = TRUE
               /\ pc' = "goto"
          ELSE /\ pc' = Handler("launch")
               /\ browser' = FailedLaunch(raised)
               /\ UNCHANGED windowOpen
    /\ UNCHANGED << MAX_LLM_STEPS, single, client, page, locals, reason, keepalive >>

\* page.goto, _dismiss_popups and the initialisation of the loop.
Goto ==
    /\ pc = "goto"
    /\ \/ /\ windowOpen
          /\ page' \in PageIds
          /\ history' = <<>>
          /\ waits' = 0
          /\ step' = 0
          /\ pc' = "extract"
          /\ UNCHANGED reason
       \/ /\ pc' = Handler("goto")
          /\ reason' = "load-failed"
          /\ UNCHANGED << page, history, waits, step >>
    /\ UNCHANGED << MAX_LLM_STEPS, single, client, browser, windowOpen, elements, shown,
                    llm_action, keepalive >>

\* A variant of the for statement that runs one pass more than the budget.
NextIterationOneMore ==
    IF step + 1 <= MAX_LLM_STEPS
    THEN /\ step' = step + 1
         /\ pc' = "extract"
         /\ elements' = 0
         /\ shown' = 0
         /\ llm_action' = NoAction
         /\ UNCHANGED reason
    ELSE /\ pc' = "loop_end"
         /\ reason' = "step-budget-exhausted"
         /\ UNCHANGED << step, elements, shown, llm_action >>

\* The for statement taking its next value, or running out of values.  The
\* locals that the next pass assigns before it reads them are cleared.
NextIteration ==
    IF step + 1 < MAX_LLM_STEPS
    THEN /\ step' = step + 1
         /\ pc' = "extract"
         /\ elements' = 0
         /\ shown' = 0
         /\ llm_action' = NoAction
         /\ UNCHANGED reason
    ELSE /\ pc' = "loop_end"
         /\ reason' = "step-budget-exhausted"
         /\ UNCHANGED << step, elements, shown, llm_action >>

\* A variant of the step without the continue: with nothing extracted it
\* goes on to read the page and to decide.
ExtractWithoutContinue ==
    /\ pc = "extract"
    /\ \E n \in 0..MaxElements :
          /\ windowOpen \/ n = 0
          /\ elements' = n
          /\ pc' = "read"
          /\ UNCHANGED << step, shown, llm_action, reason >>
    /\ UNCHANGED << MAX_LLM_STEPS, single, client, browser, windowOpen, page, waits,
                    history, keepalive >>

\* _get_page_elements and the test of its text: an extraction that raises
\* or finds nothing gives no elements.
Extract ==
    /\ pc = "extract"
    /\ \E n \in 0..MaxElements :
          /\ windowOpen \/ n = 0
          /\ IF n = 0
             THEN NextIteration
             ELSE /\ elements' = n
                  /\ pc' = "read"
                  /\ UNCHANGED << step, shown, llm_action, reason >>
    /\ UNCHANGED << MAX_LLM_STEPS, single, client, browser, windowOpen, page, waits,
                    history, keepalive >>

UrlOf(id) == IF id = 0 THEN Unknown ELSE Pages[id].url
TitleOf(id) == IF id = 0 THEN Unknown ELSE Pages[id].title

\* Reading page.url and page.title(), and the payment test.
ReadPage ==
    /\ pc = "read"
    /\ \E ok \in BOOLEAN :
          /\ windowOpen \/ ~ok
          /\ shown' = IF ok THEN page ELSE 0
    /\ IF _is_payment_page(UrlOf(shown'), TitleOf(shown'))
       THEN /\ pc' = "loop_end"
            /\ reason' = "payment-detected"
       ELSE /\ pc' = "decide"
            /\ UNCHANGED reason
    /\ UNCHANGED << MAX_LLM_STEPS, single, client, browser, windowOpen, page, step,
                    waits, history, elements, llm_action, keepalive >>

HistoryLine(n, action) ==
    [step |-> n, action |-> get(action, "action", "?"),
     reason |-> get(action, "reason", "?")]

\* _ask_llm_action and the history line; .get on a result that is no dict
\* raises AttributeError.
AskAndAppend ==
    /\ pc = "decide"
    /\ \E key \in BOOLEAN, groq \in LoopOutcomes :
          \E ollama \in IF key /\ Answers(groq) THEN {groq} ELSE LoopOutcomes :
             LET r == _ask_llm_action(key, groq, ollama)
             IN  /\ llm_action' = r.action
                 /\ IF IsDict(r.action)
                    THEN /\ history' = Append(history, HistoryLine(step + 1, r.action.items))
                         /\ pc' = "execute"
                         /\ UNCHANGED reason
                    ELSE /\ pc' = Handler("decide")
                         /\ reason' = "exception"
                         /\ UNCHANGED history
    /\ UNCHANGED << MAX_LLM_STEPS, client, browser, windowOpen, page, step, waits,
                    elements, shown, keepalive >>

Decide ==
    /\ AskAndAppend
    /\ UNCHANGED single

\* _execute_action and the test of its result.  Acting on the page, or
\* letting time pass, may bring another page.
Execute ==
    /\ pc = "execute"
    /\ \E fault \in Faults :
          LET r == _execute_action(llm_action.items, elements, fault)
          IN  /\ windowOpen \/ fault.at = 1
              /\ IF r.raised
                 THEN /\ pc' = Handler("execute")
                      /\ reason' = "exception"
                 ELSE IF ~r.cont
                 THEN /\ pc' = "loop_end"
                      /\ reason' = "done-signal"
                 ELSE /\ pc' = "count"
                      /\ UNCHANGED reason
    /\ page' \in PageIds
    /\ UNCHANGED << MAX_LLM_STEPS, single, client, browser, windowOpen, step, waits,
                    history, elements, shown, llm_action, keepalive >>

WaitLimit == 3

\* A variant of the wait count that a non-wait action lowers by one.
CountWaitDecrement ==
    /\ pc = "count"
    /\ IF get(llm_action.items, "action", "None") = "wait"
       THEN /\ waits' = waits + 1
            /\ IF waits' >= WaitLimit
               THEN /\ pc' = "loop_end"
                    /\ reason' = "repeated-wait-abort"
                    /\ UNCHANGED << step, elements, shown, llm_action >>
               ELSE NextIteration
       ELSE /\ waits' = IF waits > 0 THEN waits - 1 ELSE 0
            /\ NextIteration
    /\ UNCHANGED << MAX_LLM_STEPS, single, client, browser, windowOpen, page,
                    history, keepalive >>

\* A variant of the wait count that a non-wait action does not reset.
CountWaitNoReset ==
    /\ pc = "count"
    /\ IF get(llm_action.items, "action", "None") = "wait"
       THEN /\ waits' = waits + 1
            /\ IF waits' >= WaitLimit
               THEN /\ pc' = "loop_end"
                    /\ reason' = "repeated-wait-abort"
                    /\ UNCHANGED << step, elements, shown, llm_action >>
               ELSE NextIteration
       ELSE /\ UNCHANGED waits
            /\ NextIteration
    /\ UNCHANGED << MAX_LLM_STEPS, single, client, browser, windowOpen, page,
                    history, keepalive >>

CountWait ==
    /\ pc = "count"
    /\ IF get(llm_action.items, "action", "None") = "wait"
       THEN /\ waits' = waits + 1
            /\ IF waits' >= WaitLimit
               THEN /\ pc' = "loop_end"
                    /\ reason' = "repeated-wait-abort"
                    /\ UNCHANGED << step, elements, shown, llm_action >>
               ELSE NextIteration
       ELSE /\ waits' = 0
            /\ NextIteration
    /\ UNCHANGED << MAX_LLM_STEPS, single, client, browser, windowOpen, page, history,
                    keepalive >>

\* The call of _keep_alive(page, browser), after the loop or in the except
\* clause: the callee sees the page and the browser, and the caller returns
\* as soon as it does, so the loop's locals end here.
EnterKeepAlive ==
    /\ pc \in {"loop_end", "except"}
    /\ pc' = "poll"
    /\ keepAlives' = keepAlives + 1
    /\ elapsed' = 0
    /\ step' = 0
    /\ waits' = 0
    /\ history' = <<>>
    /\ elements' = 0
    /\ shown' = 0
    /\ llm_action' = NoAction
    /\ UNCHANGED << MAX_LLM_STEPS, single, client, browser, windowOpen, page, reason,
                    probes, closeCalls >>

\* What the clock has advanced by when time.sleep(2) returns.
SleepTimes == {2, 3}

\* Variant of the poll loop in which a failed probe is swallowed and the
\* loop goes on sleeping until the idle window has elapsed.
PollIgnoresClosedWindow ==
    /\ pc = "poll"
    /\ IF elapsed < BROWSER_KEEP_ALIVE
       THEN /\ probes' = probes + 1
            /\ \E d \in SleepTimes : elapsed' = elapsed + d
            /\ pc' = "poll"
       ELSE /\ pc' = "close"
            /\ UNCHANGED << elapsed, probes >>
    /\ UNCHANGED << MAX_LLM_STEPS, single, client, browser, windowOpen, page, locals,
                    reason, keepAlives, closeCalls >>

\* One test of the while condition of _keep_alive and one pass of its body.
Poll ==
    /\ pc = "poll"
    /\ IF elapsed < BROWSER_KEEP_ALIVE
       THEN /\ probes' = probes + 1
            /\ \/ /\ windowOpen
                  /\ \E d \in SleepTimes : elapsed' = elapsed + d
                  /\ pc' = "poll"
               \/ /\ ~windowOpen
                  /\ pc' = "close"
                  /\ UNCHANGED elapsed
       ELSE /\ pc' = "close"
            /\ UNCHANGED << elapsed, probes >>
    /\ UNCHANGED << MAX_LLM_STEPS, single, client, browser, windowOpen, page, locals,
                    reason, keepAlives, closeCalls >>

\* A variant of _keep_alive that closes the browser only when the window is
\* still there.
CloseOnlyIfWindowOpen ==
    /\ pc = "close"
    /\ IF windowOpen
       THEN /\ closeCalls' = closeCalls + 1
            /\ \E raises \in BOOLEAN : browser' = IF raises THEN browser ELSE "closed"
       ELSE UNCHANGED << closeCalls, browser >>
    /\ pc' = "with_exit"
    /\ UNCHANGED << MAX_LLM_STEPS, single, client, windowOpen, page, locals, reason,
                    elapsed, probes, keepAlives >>

\* The finally clause of _keep_alive: browser.close(), whose exception is
\* swallowed.
Close ==
    /\ pc = "close"
    /\ closeCalls' = closeCalls + 1
    /\ \E raises \in BOOLEAN : browser' = IF raises THEN browser ELSE "closed"
    /\ pc' = "with_exit"
    /\ UNCHANGED << MAX_LLM_STEPS, single, client, windowOpen, page, locals, reason,
                    elapsed, probes, keepAlives >>

\* Leaving the with statement of sync_playwright, which stops the browser.
WithExit ==
    /\ pc = "with_exit"
    /\ browser' = "closed"
    /\ \E raises \in BOOLEAN :
          pc' = IF raises THEN Handler("with_exit") ELSE "finished"
    /\ UNCHANGED << MAX_LLM_STEPS, single, client, windowOpen, page, locals, reason,
                    keepalive >>

\* The except clause of _safe_run.
SafeExcept ==
    /\ pc = "safe_except"
    /\ pc' = "finished"
    /\ UNCHANGED << MAX_LLM_STEPS, single, client, browser, windowOpen, page, locals,
                    reason, keepalive >>

(***************************************************************************)
(* The user.                                                               *)
(***************************************************************************)
UserClosesWindow ==
    /\ browser = "open"
    /\ windowOpen
    /\ pc \in {"goto", "extract", "read", "decide", "execute", "count",
                "loop_end", "except", "poll"}
    /\ windowOpen' = FALSE
    /\ UNCHANGED << MAX_LLM_STEPS, single, client, pc, browser, page, locals, reason,
                    keepalive >>

Next ==
    \/ trigger_automation
    \/ TriggerReturns
    \/ _launch_browser
    \/ Goto
    \/ Extract
    \/ ReadPage
    \/ Decide
    \/ Execute
    \/ CountWait
    \/ EnterKeepAlive
    \/ Poll
    \/ Close
    \/ WithExit
    \/ SafeExcept
    \/ UserClosesWindow

Spec == Init /\ [][Next]_vars

\* The thread runs whenever it can: the interpreter schedules it, and no
\* step of it waits for the caller or the user.
Thread ==
    \/ _launch_browser
    \/ Goto
    \/ Extract
    \/ ReadPage
    \/ Decide
    \/ Execute
    \/ CountWait
    \/ EnterKeepAlive
    \/ Poll
    \/ Close
    \/ WithExit
    \/ SafeExcept

\* Runs of a budget of one or two steps: the keep-alive phase does not
\* read what the loop did.
InitLive ==
    /\ MAX_LLM_STEPS \in 1..2
    /\ Idle
    /\ request = None
    /\ decision = None
    /\ call = None
    /\ outcome = None
    /\ threads = None
    /\ frames = None
    /\ dom = None
    /\ extracted = None
    /\ route = None
    /\ routed = None
    /\ LaterUnused

LiveSpec == InitLive /\ [][Next]_vars /\ WF_vars(Thread)

(***************************************************************************)
(* The Decision Engine on its own: one decision for every combination of   *)
(* key, primary outcome and fallback outcome.                              *)
(***************************************************************************)
Requests == [key : BOOLEAN, groq : ProviderOutcomes, ollama : ProviderOutcomes]

InitDecide ==
    /\ MAX_LLM_STEPS = 1
    /\ Idle
    /\ request \in Requests
    /\ decision = None
    /\ call = None
    /\ outcome = None
    /\ threads = None
    /\ frames = None
    /\ dom = None
    /\ extracted = None
    /\ route = None
    /\ routed = None
    /\ LaterUnused

AskLlm ==
    /\ request # None
    /\ decision = None
    /\ decision' = _ask_llm_action(request.key, request.groq, request.ollama)
    /\ UNCHANGED << MAX_LLM_STEPS, run, request, call, outcome, threads, frames, dom,
                    extracted, route, routed, later >>

SpecDecide == InitDecide /\ [][AskLlm]_vars

(***************************************************************************)
(* The Action Executor on its own: one execution for every action dict the *)
(* Decision Engine can return, element count and failing operation.        *)
(***************************************************************************)
ActionDicts ==
    { ParseAction(r).items : r \in {q \in Replies \cup {LLMUnavailable} :
                                       IsDict(ParseAction(q))} }

Calls == [action : ActionDicts, n : 0..MaxElements, fault : Faults]

InitExecute ==
    /\ MAX_LLM_STEPS = 1
    /\ Idle
    /\ request = None
    /\ decision = None
    /\ call \in Calls
    /\ outcome = None
    /\ threads = None
    /\ frames = None
    /\ dom = None
    /\ extracted = None
    /\ route = None
    /\ routed = None
    /\ LaterUnused

ExecuteCall ==
    /\ call # None
    /\ outcome = None
    /\ outcome' = _execute_action(call.action, call.n, call.fault)
    /\ UNCHANGED << MAX_LLM_STEPS, run, request, decision, call, threads, frames, dom,
                    extracted, route, routed, later >>

SpecExecute == InitExecute /\ [][ExecuteCall]_vars

(***************************************************************************)
(* Concurrent runs.  Every call of trigger_automation starts a thread of   *)
(* its own, and every thread calls _automate_with_llm, whose variables     *)
(* (the browser and page handles, step, waits, history, elements,          *)
(* llm_action) are locals of that call; the module globals are only read.  *)
(* threads[r] is where the thread of run r is and frames[Slot(r)] holds    *)
(* the locals its call works on.                                           *)
(***************************************************************************)
\* Number of runs triggered one after the other and running concurrently.
MaxRuns == 2

RunIds == 1..MaxRuns

\* A variant in which the loop's variables are module globals, one set for
\* all runs.
SlotShared(r) == 1

\* The frame the call made by the thread of run r keeps its locals in.
Slot(r) == r

NewFrame ==
    [browser |-> "none", page |-> 1, step |-> 0, waits |-> 0, history |-> <<>>,
     elements |-> 0, llm_action |-> NoAction, reason |-> "running",
     closeCalls |-> 0]

\* The pages and the provider outcomes concurrent runs are run against.
PairPages == {1, 2}

PairOutcomes ==
    { [status |-> "raise"],
      [status |-> "200", body |-> "ok",
       content |-> <<"{", "action:click", "element:0", "reason:go", "}">>],
      [status |-> "200", body |-> "ok",
       content |-> <<"ws", "{", "action:done", "reason:go", "}", "ws">>],
      [status |-> "200", body |-> "ok", content |-> <<"[1]">>] }

\* The for statement of the loop, on the frame f.
ForNext(f) ==
    IF f.step + 1 < MAX_LLM_STEPS
    THEN [pc |-> "extract",
          frame |-> [f EXCEPT !.step = @ + 1, !.elements = 0,
                              !.llm_action = NoAction]]
    ELSE [pc |-> "loop_end",
          frame |-> [f EXCEPT !.reason = "step-budget-exhausted"]]

\* _ask_llm_action and the history line, on the frame f.
DecideFrame(f, o) ==
    LET r == _ask_llm_action(FALSE, o, o)
    IN  IF IsDict(r.action)
        THEN [pc |-> "execute",
              frame |-> [f EXCEPT !.llm_action = r.action,
                                  !.history = Append(@, HistoryLine(f.step + 1,
                                                                    r.action.items))]]
        ELSE [pc |-> Handler("decide"),
              frame |-> [f EXCEPT !.llm_action = r.action, !.reason = "exception"]]

\* _execute_action and the test of its result, on the frame f; the page
\* the browser shows afterwards is p.
ExecuteFrame(f, p) ==
    LET r == _execute_action(f.llm_action.items, f.elements, NoFault)
    IN  IF r.raised
        THEN [pc |-> Handler("execute"),
              frame |-> [f EXCEPT !.reason = "exception", !.page = p]]
        ELSE IF ~r.cont
        THEN [pc |-> "loop_end",
              frame |-> [f EXCEPT !.reason = "done-signal", !.page = p]]
        ELSE [pc |-> "count", frame |-> [f EXCEPT !.page = p]]

\* The wait count, on the frame f.
CountFrame(f) ==
    IF get(f.llm_action.items, "action", "None") = "wait"
    THEN IF f.waits + 1 >= WaitLimit
         THEN [pc |-> "loop_end",
               frame |-> [f EXCEPT !.waits = @ + 1,
                                   !.reason = "repeated-wait-abort"]]
         ELSE ForNext([f EXCEPT !.waits = @ + 1])
    ELSE ForNext([f EXCEPT !.waits = 0])

\* What one step of a thread at position at, working on the frame f, leads
\* to: the set of [pc, frame] it can reach.
ThreadSteps(at, f) ==
    CASE at = "safe_run" ->
           { [pc |-> "goto", frame |-> [f EXCEPT !.browser = "open"]] }
           \cup { [pc |-> Handler("launch"),
                   frame |-> [f EXCEPT !.browser = FailedLaunch(raised)]] :
                     raised \in {"launch", "new_context", "new_page"} }
      [] at = "goto" ->
           { [pc |-> "extract",
              frame |-> [f EXCEPT !.page = p, !.history = <<>>, !.waits = 0,
                                  !.step = 0]] : p \in PairPages }
           \cup { [pc |-> Handler("goto"),
                   frame |-> [f EXCEPT !.reason = "load-failed"]] }
      [] at = "extract" ->
           { ForNext(f), [pc |-> "read", frame |-> [f EXCEPT !.elements = 1]] }
      [] at = "read" ->
           IF _is_payment_page(UrlOf(f.page), TitleOf(f.page))
           THEN { [pc |-> "loop_end",
                   frame |-> [f EXCEPT !.reason = "payment-detected"]] }
           ELSE { [pc |-> "decide", frame |-> f] }
      [] at = "decide" -> { DecideFrame(f, o) : o \in PairOutcomes }
      [] at = "execute" -> { ExecuteFrame(f, p) : p \in PairPages }
      [] at = "count" -> { CountFrame(f) }
      [] at \in {"loop_end", "except"} -> { [pc |-> "poll", frame |-> f] }
      [] at = "poll" -> { [pc |-> "close", frame |-> f] }
      [] at = "close" ->
           { [pc |-> "with_exit",
              frame |-> [f EXCEPT !.browser = "closed", !.closeCalls = @ + 1]] }
      [] at = "with_exit" -> { [pc |-> "finished", frame |-> f] }
      [] at = "safe_except" -> { [pc |-> "finished", frame |-> f] }
      [] OTHER -> {}

InitPair ==
    /\ MAX_LLM_STEPS = WaitLimit
    /\ Idle
    /\ request = None
    /\ decision = None
    /\ call = None
    /\ outcome = None
    /\ threads = [r \in RunIds |-> "not_started"]
    /\ frames = [r \in RunIds |-> NewFrame]
    /\ dom = None
    /\ extracted = None
    /\ route = None
    /\ routed = None
    /\ LaterUnused

\* The thread of run r, at one of the positions in at, takes its step.
StepAt(r, at) ==
    /\ threads[r] \in at
    /\ \E t \in ThreadSteps(threads[r], frames[Slot(r)]) :
          /\ threads' = [threads EXCEPT ![r] = t.pc]
          /\ frames' = [frames EXCEPT ![Slot(r)] = t.frame]
    /\ UNCHANGED << MAX_LLM_STEPS, run, request, decision, call, outcome, dom,
                    extracted, route, routed, later >>

\* The callers trigger the runs one after the other.
TriggerRun ==
    /\ \E r \in RunIds :
          /\ threads[r] = "not_started"
          /\ \A q \in 1..(r - 1) : threads[q] # "not_started"
          /\ threads' = [threads EXCEPT ![r] = "safe_run"]
    /\ UNCHANGED << MAX_LLM_STEPS, run, request, decision, call, outcome, frames,
                    dom, extracted, route, routed, later >>

RunLaunch == \E r \in RunIds : StepAt(r, {"safe_run"})
RunGoto == \E r \in RunIds : StepAt(r, {"goto"})
RunExtract == \E r \in RunIds : StepAt(r, {"extract"})
RunReadPage == \E r \in RunIds : StepAt(r, {"read"})
RunDecide == \E r \in RunIds : StepAt(r, {"decide"})
RunExecute == \E r \in RunIds : StepAt(r, {"execute"})
RunCountWait == \E r \in RunIds : StepAt(r, {"count"})
RunKeepAlive == \E r \in RunIds : StepAt(r, {"loop_end", "except", "poll", "close"})
RunEnds == \E r \in RunIds : StepAt(r, {"with_exit", "safe_except"})

NextPair ==
    \/ TriggerRun
    \/ RunLaunch
    \/ RunGoto
    \/ RunExtract
    \/ RunReadPage
    \/ RunDecide
    \/ RunExecute
    \/ RunCountWait
    \/ RunKeepAlive
    \/ RunEnds

SpecPair == InitPair /\ [][NextPair]_vars

(***************************************************************************)
(* Page Element Extractor.  A document is the sequence of its elements in  *)
(* document order; a JavaScript or Python string is a sequence of          *)
(* one-character strings.                                                  *)
(***************************************************************************)
\* Largest number of plain visible elements of a document of the model.
MaxDom == 37
\* Largest number of extraction passes over one document.
MaxPasses == 2

Cap == 35
TextCut == 50
LabelCut == 60
ValueCut == 30

\* String.prototype.toUpperCase
upper(s) ==
    [i \in 1..Len(s) |->
        IF \E k \in 1..Len(LowerCase) : LowerCase[k] = s[i]
        THEN UpperCase[CHOOSE k \in 1..Len(LowerCase) : LowerCase[k] = s[i]]
        ELSE s[i]]

\* String.prototype.trim
RECURSIVE trim(_)
trim(s) ==
    IF s = <<>> THEN s
    ELSE IF Head(s) = " " THEN trim(Tail(s))
    ELSE IF s[Len(s)] = " " THEN trim(SubSeq(s, 1, Len(s) - 1))
    ELSE s

\* String.prototype.substring(0, n)
substring(s, n) == IF Len(s) <= n THEN s ELSE SubSeq(s, 1, n)

\* The decimal text of a natural number.
DigitChar == <<"0", "1", "2", "3", "4", "5", "6", "7", "8", "9">>

RECURSIVE Digits(_)
Digits(n) ==
    IF n < 10 THEN <<DigitChar[n + 1]>>
    ELSE Digits(n \div 10) \o <<DigitChar[(n % 10) + 1]>>

selectors ==
    << "input:not([type=hidden])", "button", "a[href]", "select", "textarea",
       "[role=button]", "[role=link]", "[role=option]", "[role=combobox]",
       "[role=listbox]", "[role=tab]", "[contenteditable=true]" >>

\* Whether the element el is in document.querySelectorAll(selectors[k]).
Matches(k, el) ==
    LET tag == lower(el.tagName)
    IN  CASE k = 1 -> tag = <<"i","n","p","u","t">>
                      /\ el.type # <<"h","i","d","d","e","n">>
          [] k = 2 -> tag = <<"b","u","t","t","o","n">>
          [] k = 3 -> tag = <<"a">> /\ el.href
          [] k = 4 -> tag = <<"s","e","l","e","c","t">>
          [] k = 5 -> tag = <<"t","e","x","t","a","r","e","a">>
          [] k = 6 -> el.role = <<"b","u","t","t","o","n">>
          [] k = 7 -> el.role = <<"l","i","n","k">>
          [] k = 8 -> el.role = <<"o","p","t","i","o","n">>
          [] k = 9 -> el.role = <<"c","o","m","b","o","b","o","x">>
          [] k = 10 -> el.role = <<"l","i","s","t","b","o","x">>
          [] k = 11 -> el.role = <<"t","a","b">>
          [] k = 12 -> el.contenteditable
          [] OTHER -> FALSE

\* a || b || ... : the first operand that is not the empty string.
RECURSIVE FirstNonEmpty(_)
FirstNonEmpty(options) ==
    IF options = <<>> THEN <<>>
    ELSE IF Head(options) # <<>> THEN Head(options)
    ELSE FirstNonEmpty(Tail(options))

\* `${tag}|${id}|${text}|${placeholder}`
KeyOf(tag, id, text, placeholder) ==
    tag \o <<"|">> \o id \o <<"|">> \o text \o <<"|">> \o placeholder

\* The object pushed for the element at position node of the document when
\* index elements have been pushed before it.  The field node is not part
\* of the object: it records which element the object was made of.
Pushed(el, node, index) ==
    LET tag == lower(el.tagName)
        text == substring(trim(el.textContent), TextCut)
        desc == IF el.type # <<>>
                THEN upper(tag) \o <<"[">> \o el.type \o <<"]">>
                ELSE upper(tag)
        label == FirstNonEmpty(<<el.ariaLabel, el.placeholder, text, el.name, el.id>>)
    IN  [index |-> index, tag |-> tag, type |-> el.type, role |-> el.role,
         id |-> el.id, name |-> el.name, placeholder |-> el.placeholder,
         ariaLabel |-> el.ariaLabel, text |-> substring(text, TextCut),
         value |-> substring(el.value, ValueCut), desc |-> desc,
         label |-> substring(label, LabelCut), node |-> node]

\* A variant without the break of the loop over the selectors.
OuterBreakMissing(n) == FALSE

\* The test after the loop over the elements of one selector.
OuterBreak(n) == n >= Cap

\* The loop over the elements of selector k, from position i on; st holds
\* results and seen, and raised once the script has thrown.
RECURSIVE ScanSelector(_, _, _, _)
ScanSelector(doc, k, i, st) ==
    IF i > Len(doc) THEN st
    ELSE LET el == doc[i]
             key == KeyOf(lower(el.tagName), el.id,
                          substring(trim(el.textContent), TextCut), el.placeholder)
         IN  IF ~Matches(k, el) THEN ScanSelector(doc, k, i + 1, st)
             ELSE IF el.width = 0 \/ el.height = 0 THEN ScanSelector(doc, k, i + 1, st)
             ELSE IF \/ el.display = "none"
                     \/ el.visibility = "hidden"
                     \/ el.opacity = "0"
                  THEN ScanSelector(doc, k, i + 1, st)
             ELSE IF key \in st.seen THEN ScanSelector(doc, k, i + 1, st)
             ELSE IF el.numeric
                  THEN \* value.substring is not a function
                       [st EXCEPT !.seen = @ \cup {key}, !.raised = TRUE]
             ELSE LET pushed == [st EXCEPT
                                   !.seen = @ \cup {key},
                                   !.results = Append(@, Pushed(el, i, Len(st.results)))]
                  IN  IF Len(pushed.results) >= Cap THEN pushed
                      ELSE ScanSelector(doc, k, i + 1, pushed)

\* The loop over the selectors, from selector k on.
RECURSIVE ScanSelectors(_, _, _)
ScanSelectors(doc, k, st) ==
    IF k > Len(selectors) THEN st
    ELSE LET after == ScanSelector(doc, k, 1, st)
         IN  IF after.raised \/ OuterBreak(Len(after.results)) THEN after
             ELSE ScanSelectors(doc, k + 1, after)

\* A variant whose set of seen keys outlives the call.
SeenSinceFirstPass(previous) == previous

\* const seen = new Set(): previous is the set the pass before ended with.
NewSeen(previous) == {}

\* page.evaluate of the extraction script.
page_evaluate(doc, seen) ==
    ScanSelectors(doc, 1, [results |-> <<>>, seen |-> seen, raised |-> FALSE])

\* One line of the numbered list.
LineOf(el) ==
    <<"[">> \o Digits(el.index) \o <<"]", " ">> \o el.desc
    \o (IF el.label # <<>> THEN <<" ", "\"">> \o el.label \o <<"\"">> ELSE <<>>)
    \o (IF el.value # <<>>
        THEN <<" ", "(", "v", "a", "l", "u", "e", ":", " ", "\"">> \o el.value
             \o <<"\"", ")">>
        ELSE <<>>)

\* "\n".join(lines)
RECURSIVE join(_)
join(lines) ==
    IF lines = <<>> THEN <<>>
    ELSE IF Len(lines) = 1 THEN lines[1]
    ELSE lines[1] \o <<"\n">> \o join(Tail(lines))

\* _get_page_elements: the elements and their text, or ([], "") when the
\* script raised; seen is returned for the pass that follows.
_get_page_elements(doc, seen) ==
    LET evaluated == page_evaluate(doc, seen)
    IN  IF evaluated.raised
        THEN [elements |-> <<>>, text |-> <<>>, seen |-> evaluated.seen]
        ELSE [elements |-> evaluated.results,
              text |-> join([i \in 1..Len(evaluated.results) |->
                                LineOf(evaluated.results[i])]),
              seen |-> evaluated.seen]

\* The documents of the model.
Node ==
    [tagName |-> <<"B","U","T","T","O","N">>, type |-> <<>>, role |-> <<>>,
     id |-> <<>>, name |-> <<>>, placeholder |-> <<>>, ariaLabel |-> <<>>,
     href |-> FALSE, contenteditable |-> FALSE, textContent |-> <<>>,
     value |-> <<>>, numeric |-> FALSE, width |-> 10, height |-> 10,
     display |-> "block", visibility |-> "visible", opacity |-> "1"]

\* The i-th plain element: a text input or a button, by turns.
Plain(i) ==
    IF i % 2 = 1
    THEN [Node EXCEPT !.tagName = <<"I","N","P","U","T">>,
                      !.type = <<"t","e","x","t">>,
                      !.id = <<"e">> \o Digits(i),
                      !.placeholder = <<"T","o">>]
    ELSE [Node EXCEPT !.id = <<"e">> \o Digits(i), !.textContent = <<"G","o">>]

LongText(last) == [i \in 1..(TextCut + 2) |-> IF i = TextCut + 2 THEN last ELSE "x"]

Invisible ==
    << [Node EXCEPT !.id = <<"h","1">>, !.width = 0],
       [Node EXCEPT !.id = <<"h","2">>, !.height = 0],
       [Node EXCEPT !.id = <<"h","3">>, !.display = "none"],
       [Node EXCEPT !.id = <<"h","4">>, !.visibility = "hidden"],
       [Node EXCEPT !.id = <<"h","5">>, !.opacity = "0"] >>

Repeated ==
    << [Node EXCEPT !.tagName = <<"A">>, !.href = TRUE, !.textContent = <<"M","o","r","e">>],
       [Node EXCEPT !.tagName = <<"A">>, !.href = TRUE, !.textContent = <<" ","M","o","r","e"," ">>,
                    !.ariaLabel = <<"N","e","x","t">>],
       [Node EXCEPT !.role = <<"b","u","t","t","o","n">>, !.id = <<"r","b">>] >>

Long ==
    << [Node EXCEPT !.textContent = LongText("y")],
       [Node EXCEPT !.textContent = LongText("z")] >>

Barred ==
    << [Node EXCEPT !.id = <<"a","|","b">>],
       [Node EXCEPT !.id = <<"a">>, !.textContent = <<"b","|">>] >>

\* An option whose value is a number, and a link whose two words stand on
\* two lines of the markup.
Numeric ==
    << [Node EXCEPT !.tagName = <<"L","I">>, !.role = <<"o","p","t","i","o","n">>,
                    !.numeric = TRUE],
       [Node EXCEPT !.tagName = <<"A">>, !.href = TRUE, !.id = <<"m","l">>,
                    !.textContent = <<" ","M","y","\n","T","r","i","p","s"," ">>] >>

Mixed ==
    << [Node EXCEPT !.tagName = <<"I","N","P","U","T">>,
                    !.type = <<"h","i","d","d","e","n">>, !.id = <<"t","k">>],
       [Node EXCEPT !.tagName = <<"D","I","V">>, !.contenteditable = TRUE,
                    !.id = <<"e","d">>],
       [Node EXCEPT !.tagName = <<"S","E","L","E","C","T">>, !.name = <<"c","i","t","y">>,
                    !.value = <<"G","o","a">>] >>

Specials == { <<>>, Invisible, Repeated, Long, Barred, Numeric, Mixed }

\* The numbers of plain elements: few, or about as many as the cap.
PlainCounts == { k \in 0..MaxDom : k <= 2 \/ k >= MaxDom - 4 }

Documents ==
    { before \o [i \in 1..k |-> Plain(i)] \o after :
        before \in Specials, k \in PlainCounts, after \in Specials }

InitExtract ==
    /\ MAX_LLM_STEPS = 1
    /\ Idle
    /\ request = None
    /\ decision = None
    /\ call = None
    /\ outcome = None
    /\ threads = None
    /\ frames = None
    /\ dom \in Documents
    /\ extracted = <<>>
    /\ route = None
    /\ routed = None
    /\ LaterUnused

\* One more pass over the document, which has not changed.
GetPageElements ==
    /\ Len(extracted) < MaxPasses
    /\ extracted' =
          Append(extracted,
                 _get_page_elements(dom, NewSeen(IF extracted = <<>> THEN {}
                                                 ELSE extracted[Len(extracted)].seen)))
    /\ UNCHANGED << MAX_LLM_STEPS, run, request, decision, call, outcome, threads,
                    frames, dom, route, routed, later >>

SpecExtract == InitExtract /\ [][GetPageElements]_vars

(***************************************************************************)
(* Site Router: the lookup of the site of an intent.                       *)
(***************************************************************************)
SITE_MAP ==
    (  "taxi_booking" :>
        [url |-> <<"h","t","t","p","s",":","/","/","m",".","u","b","e",
                   "r",".","c","o","m","/","g","o","/","p","i","c","k",
                   "u","p">>,
         name |-> "Uber"]
    @@ "bus_booking" :>
        [url |-> <<"h","t","t","p","s",":","/","/","w","w","w",".","r",
                   "e","d","b","u","s",".","i","n","/">>,
         name |-> "RedBus"]
    @@ "hotel_booking" :>
        [url |-> <<"h","t","t","p","s",":","/","/","w","w","w",".","b",
                   "o","o","k","i","n","g",".","c","o","m","/">>,
         name |-> "Booking.com"]
    @@ "flight_booking" :>
        [url |-> <<"h","t","t","p","s",":","/","/","w","w","w",".","g",
                   "o","o","g","l","e",".","c","o","m","/","t","r","a",
                   "v","e","l","/","f","l","i","g","h","t","s">>,
         name |-> "Google Flights"]
    @@ "restaurant_booking" :>
        [url |-> <<"h","t","t","p","s",":","/","/","w","w","w",".","z",
                   "o","m","a","t","o",".","c","o","m","/">>,
         name |-> "Zomato"]
    @@ "tour_booking" :>
        [url |-> <<"h","t","t","p","s",":","/","/","w","w","w",".","g",
                   "o","o","g","l","e",".","c","o","m","/","m","a","p","s">>,
         name |-> "Google Maps"] )

SearchPrefix ==
    <<"h","t","t","p","s",":","/","/","w","w","w",".","g","o","o","g","l",
      "e",".","c","o","m","/","s","e","a","r","c","h","?","q","=">>

SearchSuffix == <<"+","b","o","o","k","i","n","g">>

\* A variant whose fallback does not put the destination into the query.
SiteGetWithoutDestination(intent, destination) ==
    IF intent \in DOMAIN SITE_MAP
    THEN SITE_MAP[intent]
    ELSE [url |-> SearchPrefix \o SearchSuffix, name |-> "Google"]

\* SITE_MAP.get(intent, {...}) with the f-string of the fallback.
SiteGet(intent, destination) ==
    IF intent \in DOMAIN SITE_MAP
    THEN SITE_MAP[intent]
    ELSE [url |-> SearchPrefix \o destination \o SearchSuffix, name |-> "Google"]

\* The intents, destinations and pickups a lookup is made with.
Intents ==
    DOMAIN SITE_MAP \cup {"", "train_booking", "Taxi_Booking", "taxi_booking ", "unknown"}

Destinations ==
    { <<>>, <<"G","o","a">>, <<"N","e","w"," ","D","e","l","h","i">>,
      <<"a","&","q","=","b">>, <<"+","b","o","o","k","i","n","g">> }

Pickups == { <<"H","y","d">>, <<"m","y"," ","c","u","r","r","e","n","t"," ","l","o","c","a","t","i","o","n">> }

Routes == [intent : Intents, destination : Destinations, pickup : Pickups]

InitRoute ==
    /\ MAX_LLM_STEPS = 1
    /\ Idle
    /\ request = None
    /\ decision = None
    /\ call = None
    /\ outcome = None
    /\ threads = None
    /\ frames = None
    /\ dom = None
    /\ extracted = None
    /\ route \in Routes
    /\ routed = None
    /\ LaterUnused

SiteLookup ==
    /\ routed = None
    /\ routed' = SiteGet(route.intent, route.destination)
    /\ UNCHANGED << MAX_LLM_STEPS, run, request, decision, call, outcome, threads,
                    frames, dom, extracted, route, later >>

SpecRoute == InitRoute /\ [][SiteLookup]_vars

(***************************************************************************)
(* One step of the loop from its decision on, for every action dict the    *)
(* Decision Engine can return: the run has taken w wait decisions in its   *)
(* first w steps and has just decided at step w.                           *)
(***************************************************************************)
WaitLine(n) == HistoryLine(n, [action |-> "wait", reason |-> "go"])

InitStep ==
    /\ MAX_LLM_STEPS \in 1..MaxSteps
    /\ caller = "returned"
    /\ result = "None"
    /\ pc = "execute"
    /\ browser = "open"
    /\ windowOpen = TRUE
    /\ page = 1
    /\ shown = 1
    /\ waits \in 0..(WaitLimit - 1)
    /\ waits + 1 <= MAX_LLM_STEPS
    /\ step = waits
    /\ elements \in 1..MaxElements
    /\ \E a \in ActionDicts :
          /\ llm_action = [type |-> "dict", items |-> a]
          /\ history = [i \in 1..waits |-> WaitLine(i)]
                          \o << HistoryLine(waits + 1, a) >>
    /\ reason = "running"
    /\ elapsed = 0
    /\ probes = 0
    /\ keepAlives = 0
    /\ closeCalls = 0
    /\ request = None
    /\ decision = None
    /\ call = None
    /\ outcome = None
    /\ threads = None
    /\ frames = None
    /\ dom = None
    /\ extracted = None
    /\ route = None
    /\ routed = None
    /\ LaterUnused

NextStep ==
    \/ Execute
    \/ CountWait

SpecStep == InitStep /\ [][NextStep]_vars

(***************************************************************************)
(* _build_locator on its own.  A locator is the strategy that made it (by),*)
(* the tag it is scoped to and the attribute value it looks for; visible   *)
(* is the set of strategies whose wait_for(state="visible") comes back     *)
(* within its timeout, every other one raises.                             *)
(***************************************************************************)
Locator(by, tag, value) == [by |-> by, tag |-> tag, value |-> value]

\* A variant of the strategy list that puts the name attribute first.
StrategiesNameFirst(el_info) ==
    (IF el_info.name # "" THEN << Locator("name", el_info.tag, el_info.name) >> ELSE <<>>)
    \o (IF el_info.id # "" THEN << Locator("id", "", el_info.id) >> ELSE <<>>)
    \o (IF el_info.ariaLabel # ""
        THEN << Locator("ariaLabel", "", el_info.ariaLabel) >> ELSE <<>>)
    \o (IF el_info.placeholder # ""
        THEN << Locator("placeholder", "", el_info.placeholder) >> ELSE <<>>)
    \o (IF el_info.text # "" /\ el_info.tag \in {"button", "a"}
        THEN << Locator("text", "", el_info.text) >> ELSE <<>>)

\* The list strategies as the five if statements build it.
strategies(el_info) ==
    (IF el_info.id # "" THEN << Locator("id", "", el_info.id) >> ELSE <<>>)
    \o (IF el_info.ariaLabel # ""
        THEN << Locator("ariaLabel", "", el_info.ariaLabel) >> ELSE <<>>)
    \o (IF el_info.placeholder # ""
        THEN << Locator("placeholder", "", el_info.placeholder) >> ELSE <<>>)
    \o (IF el_info.text # "" /\ el_info.tag \in {"button", "a"}
        THEN << Locator("text", "", el_info.text) >> ELSE <<>>)
    \o (IF el_info.name # "" THEN << Locator("name", el_info.tag, el_info.name) >> ELSE <<>>)

\* The for loop over strategies: the first one that becomes visible is
\* returned, an exception goes on to the next one, and after the last one
\* the locator by tag name is returned.  tried lists the strategies called.
RECURSIVE TryStrategies(_, _, _, _)
TryStrategies(rest, visible, tried, fallback) ==
    IF rest = <<>> THEN [loc |-> fallback, tried |-> tried]
    ELSE IF Head(rest).by \in visible
    THEN [loc |-> Head(rest), tried |-> Append(tried, Head(rest).by)]
    ELSE TryStrategies(Tail(rest), visible, Append(tried, Head(rest).by), fallback)

_build_locator(el_info, visible) ==
    TryStrategies(strategies(el_info), visible, <<>>,
                  Locator("tag", el_info.tag, ""))

StrategyNames == <<"id", "ariaLabel", "placeholder", "text", "name">>

\* The element objects a locator is built for: every attribute empty or not.
ElInfos ==
    [tag : {"button", "a", "input"}, id : {"", "go"}, ariaLabel : {"", "Go"},
     placeholder : {"", "City"}, text : {"", "Search"}, name : {"", "q"}]

InitLocate ==
    /\ MAX_LLM_STEPS = 1
    /\ Idle
    /\ request = None
    /\ decision = None
    /\ call = None
    /\ outcome = None
    /\ threads = None
    /\ frames = None
    /\ dom = None
    /\ extracted = None
    /\ route = None
    /\ routed = None
    /\ target \in [el_info : ElInfos, visible : SUBSET {"id", "ariaLabel", "placeholder", "text", "name"}]
    /\ located = None
    /\ history_text = None
    /\ _active_session = None
    /\ returned = None

BuildLocator ==
    /\ located = None
    /\ located' = _build_locator(target.el_info, target.visible)
    /\ UNCHANGED << MAX_LLM_STEPS, run, request, decision, call, outcome, threads,
                    frames, dom, extracted, route, routed, target, history_text,
                    _active_session, returned >>

SpecLocate == InitLocate /\ [][BuildLocator]_vars

(***************************************************************************)
(* The history section of the prompt.  The run has scrolled in each of its *)
(* first k steps and is about to decide at step k; history_text is what    *)
(* the prompt of that decision holds after "Previous actions:", as the     *)
(* joined items: a history line or the separator between two of them.      *)
(***************************************************************************)
MaxHistory == 6

Recent == 5

Newline == [sep |-> "\n"]

NoneYet == << [text |-> "None yet"] >>

\* "\n".join(lines)
RECURSIVE JoinLines(_)
JoinLines(lines) ==
    IF lines = <<>> THEN <<>>
    ELSE IF Len(lines) = 1 THEN lines
    ELSE << Head(lines), Newline >> \o JoinLines(Tail(lines))

\* A variant that takes history[:5], the oldest lines.
HistoryTextOldest(h) ==
    IF h # <<>>
    THEN JoinLines(SubSeq(h, 1, IF Len(h) > Recent THEN Recent ELSE Len(h)))
    ELSE NoneYet

\* "\n".join(history[-5:]) if history else "None yet"
HistoryText(h) ==
    IF h # <<>>
    THEN JoinLines(SubSeq(h, IF Len(h) > Recent THEN Len(h) - Recent + 1 ELSE 1, Len(h)))
    ELSE NoneYet

ScrollLine(n) == HistoryLine(n, [action |-> "scroll", reason |-> "go"])

InitTurn ==
    /\ caller = "returned"
    /\ result = "None"
    /\ pc = "decide"
    /\ browser = "open"
    /\ windowOpen = TRUE
    /\ page = 1
    /\ shown = 1
    /\ waits = 0
    /\ step \in 0..MaxHistory
    /\ MAX_LLM_STEPS \in (step + 1)..(step + 2)
    /\ elements = 1
    /\ llm_action = NoAction
    /\ history = [i \in 1..step |-> ScrollLine(i)]
    /\ reason = "running"
    /\ elapsed = 0
    /\ probes = 0
    /\ keepAlives = 0
    /\ closeCalls = 0
    /\ request = None
    /\ decision = None
    /\ call = None
    /\ outcome = None
    /\ threads = None
    /\ frames = None
    /\ dom = None
    /\ extracted = None
    /\ route = None
    /\ routed = None
    /\ target = None
    /\ located = None
    /\ history_text = None
    /\ _active_session = None
    /\ returned = None

\* The decision of the step together with the prompt it sends.
DecideTurn ==
    /\ AskAndAppend
    /\ history_text' = HistoryText(history)
    /\ UNCHANGED << request, decision, call, outcome, threads, frames, dom,
                    extracted, route, routed, target, located, _active_session,
                    returned >>

NextTurn ==
    \/ Extract
    \/ ReadPage
    \/ DecideTurn
    \/ Execute
    \/ CountWait

SpecTurn == InitTurn /\ [][NextTurn]_vars

(***************************************************************************)
(* The hotel follow-up dialog of session.py.  A text is what the parsers   *)
(* and the noise filter make of it: the hotel name left of it, the budget  *)
(* and the date found in it, whether a skip word occurs in it, and the     *)
(* guests named in it.  An int or a date that may be None is None or       *)
(* Some(v).                                                                *)
(***************************************************************************)
Some(v) == [value |-> v]

\* bool(x) of an int or None
Truthy(x) == x # None /\ x.value # 0

Hyderabad == <<"H","y","d","e","r","a","b","a","d">>

Sitara == <<"S","i","t","a","r","a">>

MaxAdults == 10

MaxChildren == 6

Stages == <<"ask_hotel", "ask_budget", "ask_checkin", "ask_checkout", "ask_guests", "done">>

GuestTexts ==
    { [phrase |-> "solo", adults |-> None, children |-> None],
      [phrase |-> "family", adults |-> Some(12), children |-> None],
      [phrase |-> "", adults |-> None, children |-> None],
      [phrase |-> "", adults |-> Some(12), children |-> Some(7)],
      [phrase |-> "", adults |-> Some(0), children |-> Some(1)] }

Texts ==
    [cleaned : {<<>>, <<"S">>, Sitara},
     budget : { <<None, None>>, <<Some(2000), Some(3000)>>, <<None, Some(5000)>>,
                <<Some(0), Some(0)>> },
     skip : BOOLEAN,
     date : {None, Some(1), Some(2)},
     guests : GuestTexts]

_parse_budget(text) == text.budget

_parse_date(text) == text.date

Clamp(low, n, high) == IF n < low THEN low ELSE IF n > high THEN high ELSE n

_parse_guests(text) ==
    LET g == text.guests
    IN  IF g.phrase = "solo" THEN <<1, 0>>
        ELSE IF g.phrase = "couple" THEN <<2, 0>>
        ELSE IF g.phrase = "family" THEN <<g.adults.value, 0>>
        ELSE << Clamp(1, IF g.adults # None THEN g.adults.value ELSE 2, MaxAdults),
                Clamp(0, IF g.children # None THEN g.children.value ELSE 0, MaxChildren) >>

Dict(items) == [type |-> "dict", items |-> items]

Question(question, next) == Dict([question |-> question, step |-> next])

\* The session start_hotel_session makes.
NewSession(hotel_name, detected_lang) ==
    [type |-> "hotel_booking", hotel |-> hotel_name, lang |-> detected_lang,
     step |-> IF hotel_name # <<>> THEN "ask_budget" ELSE "ask_hotel",
     checkin |-> None, checkout |-> None, adults |-> 2, children |-> 0,
     price_min |-> None, price_max |-> None, sort_by_rating |-> TRUE]

\* Each branch of process_session_input gives the session as it leaves it,
\* what it read of the text, and what it returns.
ask_hotel(session, text) ==
    LET hotel_name == text.cleaned
    IN  IF hotel_name = <<>> \/ Len(hotel_name) < 2
        THEN [session |-> [session EXCEPT !.hotel = Hyderabad, !.step = "ask_budget"],
              heard |-> Dict([cleaned |-> text.cleaned]),
              value |-> Question("budget of the city", "ask_budget")]
        ELSE [session |-> [session EXCEPT !.hotel = hotel_name, !.step = "ask_budget"],
              heard |-> Dict([cleaned |-> text.cleaned]),
              value |-> Question("budget of the hotel", "ask_budget")]

\* A variant that goes on to the dates whatever the text was.
AskBudgetAlwaysOn(session, text) ==
    LET p_min == _parse_budget(text)[1]
        p_max == _parse_budget(text)[2]
        heard == Dict([budget |-> text.budget, skip |-> text.skip])
    IN  IF Truthy(p_min) \/ Truthy(p_max)
        THEN [session |-> [session EXCEPT !.price_min = p_min, !.price_max = p_max,
                                          !.step = "ask_checkin"],
              heard |-> heard,
              value |-> Question("budget set", "ask_checkin")]
        ELSE [session |-> [session EXCEPT !.step = "ask_checkin"],
              heard |-> heard,
              value |-> Question("no problem", "ask_checkin")]

ask_budget(session, text) ==
    LET p_min == _parse_budget(text)[1]
        p_max == _parse_budget(text)[2]
        heard == Dict([budget |-> text.budget, skip |-> text.skip])
    IN  IF Truthy(p_min) \/ Truthy(p_max)
        THEN [session |-> [session EXCEPT !.price_min = p_min, !.price_max = p_max,
                                          !.step = "ask_checkin"],
              heard |-> heard,
              value |-> Question("budget set", "ask_checkin")]
        ELSE IF text.skip
        THEN [session |-> [session EXCEPT !.step = "ask_checkin"],
              heard |-> heard,
              value |-> Question("no problem", "ask_checkin")]
        ELSE [session |-> session,
              heard |-> heard,
              value |-> Question("budget not caught", "ask_budget")]

ask_checkin(session, text) ==
    LET date == _parse_date(text)
    IN  IF date # None
        THEN [session |-> [session EXCEPT !.checkin = date, !.step = "ask_checkout"],
              heard |-> Dict([date |-> text.date]),
              value |-> Question("check-in set", "ask_checkout")]
        ELSE [session |-> session,
              heard |-> Dict([date |-> text.date]),
              value |-> Question("check-in not caught", "ask_checkin")]

\* A variant that goes on to the guests without a date.
AskCheckoutWithoutDate(session, text) ==
    LET date == _parse_date(text)
    IN  [session |-> [session EXCEPT !.checkout = date, !.step = "ask_guests"],
         heard |-> Dict([date |-> text.date]),
         value |-> Question("check-out set", "ask_guests")]

ask_checkout(session, text) ==
    LET date == _parse_date(text)
    IN  IF date # None
        THEN [session |-> [session EXCEPT !.checkout = date, !.step = "ask_guests"],
              heard |-> Dict([date |-> text.date]),
              value |-> Question("check-out set", "ask_guests")]
        ELSE [session |-> session,
              heard |-> Dict([date |-> text.date]),
              value |-> Question("check-out not caught", "ask_checkout")]

\* The guests and the step are set before the dates are formatted;
\* strftime on a date that is None raises AttributeError.
ask_guests(session, text) ==
    LET guests == _parse_guests(text)
        after == [session EXCEPT !.adults = guests[1], !.children = guests[2],
                                 !.step = "done"]
    IN  IF after.checkin = None \/ after.checkout = None
        THEN [session |-> after,
              heard |-> Dict([guests |-> text.guests]),
              value |-> [type |-> "raised", error |-> "AttributeError"]]
        ELSE [session |-> after,
              heard |-> Dict([guests |-> text.guests]),
              value |-> Dict([complete |-> TRUE, question |-> "opening", step |-> "done",
                              session |-> after])]

process_session_input(session, text) ==
    IF session = None
    THEN [session |-> session, heard |-> None, value |-> None]
    ELSE IF session.step = "ask_hotel" THEN ask_hotel(session, text)
    ELSE IF session.step = "ask_budget" THEN ask_budget(session, text)
    ELSE IF session.step = "ask_checkin" THEN ask_checkin(session, text)
    ELSE IF session.step = "ask_checkout" THEN ask_checkout(session, text)
    ELSE IF session.step = "ask_guests" THEN ask_guests(session, text)
    ELSE [session |-> session, heard |-> None, value |-> None]

\* No session, and no call of the module yet.
InitDialog ==
    /\ MAX_LLM_STEPS = 1
    /\ Idle
    /\ request = None
    /\ decision = None
    /\ call = None
    /\ outcome = None
    /\ threads = None
    /\ frames = None
    /\ dom = None
    /\ extracted = None
    /\ route = None
    /\ routed = None
    /\ target = None
    /\ located = None
    /\ history_text = None
    /\ _active_session = None
    /\ returned = [call |-> "none", heard |-> None, value |-> None]

DialogRest ==
    << MAX_LLM_STEPS, run, request, decision, call, outcome, threads, frames, dom,
       extracted, route, routed, target, located, history_text >>

start_hotel_session ==
    /\ \E hotel_name \in {<<>>, Sitara}, detected_lang \in {"en", "hi"} :
          /\ _active_session' = NewSession(hotel_name, detected_lang)
          /\ returned' = [call |-> "start_hotel_session", heard |-> None,
                          value |-> _active_session']
    /\ UNCHANGED DialogRest

ProcessSessionInput ==
    /\ \E text \in Texts :
          LET r == process_session_input(_active_session, text)
          IN  /\ _active_session' = r.session
              /\ returned' = [call |-> "process_session_input", heard |-> r.heard,
                              value |-> r.value]
    /\ UNCHANGED DialogRest

clear_session ==
    /\ _active_session' = None
    /\ returned' = [call |-> "clear_session", heard |-> None, value |-> None]
    /\ UNCHANGED DialogRest

NextDialog ==
    \/ start_hotel_session
    \/ ProcessSessionInput
    \/ clear_session

SpecDialog == InitDialog /\ [][NextDialog]_vars

(***************************************************************************)
(* Claims.                                                                 *)
(***************************************************************************)
\* The kinds of the history lines, oldest first.
Kinds(h) == [i \in 1..Len(h) |-> h[i].action]

\* The number of wait lines at the end of the history.
RECURSIVE TrailingWaits(_)
TrailingWaits(h) ==
    IF h = <<>> \/ h[Len(h)].action # "wait" THEN 0
    ELSE 1 + TrailingWaits(SubSeq(h, 1, Len(h) - 1))

\* Some WaitLimit consecutive decisions were all wait.
ThreeWaitsInARow(h) ==
    \E i \in 1..(Len(h) - WaitLimit + 1) :
        \A j \in 0..(WaitLimit - 1) : h[i + j].action = "wait"

NeverDone(h) == \A i \in 1..Len(h) : h[i].action # "done"

C2_WaitsCountTrailingWaits ==
    /\ pc \in {"extract", "read", "decide"}
        => (waits = TrailingWaits(history) /\ waits < WaitLimit)
    /\ (pc = "loop_end" /\ reason = "repeated-wait-abort")
        => (TrailingWaits(history) = WaitLimit /\ step + 1 <= MAX_LLM_STEPS)
    /\ (pc = "loop_end" /\ TrailingWaits(history) >= WaitLimit)
        => reason = "repeated-wait-abort"

\* wait, click, wait, wait: the run was not aborted.
C2_Witness ==
    /\ pc = "loop_end"
    /\ reason = "step-budget-exhausted"
    /\ Kinds(history) = <<"wait", "click", "wait", "wait">>

\* The claim's own reading of the heuristic: a keyword is a substring of
\* url + " " + title, compared case-insensitively.
HasPaymentKeyword(id) ==
    \E kw \in keywords :
        Contains(lower(UrlOf(id) \o <<" ">> \o TitleOf(id)), kw)

\* C3 as stated: a step that begins on a page whose url or title has a
\* payment keyword goes from extraction to reading the page and from there
\* ends the loop with payment-detected.
C3_PaymentPageAlwaysEndsLoop ==
    [][(pc \in {"extract", "read"} /\ HasPaymentKeyword(page)
            /\ (pc' # pc \/ step' # step))
        => \/ pc = "extract" /\ pc' = "read" /\ step' = step
           \/ pc' = "loop_end" /\ reason' = "payment-detected"]_vars

\* C3 amended: at any step whose extraction is not empty and whose url and
\* title, as read, have a payment keyword, the loop ends at that step with
\* payment-detected, whatever the step count, and neither the Decision
\* Engine nor the Action Executor is invoked in that step.
C3_PaymentReadEndsLoop ==
    /\ pc \in {"decide", "execute", "count"} => ~HasPaymentKeyword(shown)
    /\ (pc \in {"loop_end", "except"} /\ HasPaymentKeyword(shown))
        => /\ pc = "loop_end"
           /\ reason = "payment-detected"
           /\ elements > 0
           /\ llm_action = NoAction
           /\ \A i \in 1..Len(history) : history[i].step < step + 1

\* Payment detected at the last step of the budget, after earlier decisions,
\* on the page titled "Checkout - Booking".
C3_Witness ==
    /\ pc = "loop_end"
    /\ reason = "payment-detected"
    /\ shown = 2
    /\ step + 1 = MaxSteps
    /\ Len(history) = MaxSteps - 1

\* A request both of whose providers fail as the claim says: a non-200
\* status or an exception.
BothFail(req) ==
    /\ req.groq.status \in {"500", "raise"}
    /\ req.ollama.status \in {"500", "raise"}

\* C4: when both providers fail for one decision, _ask_llm_action returns
\* exactly the action {action: "wait", reason: "LLM unavailable"}.
C4_BothFailGivesUnavailableWait ==
    (decision # None /\ BothFail(request))
        => decision.action =
             [type |-> "dict",
              items |-> [action |-> "wait", reason |-> "LLM unavailable"]]

\* The primary answered with a non-200 status, the fallback raised, and
\* the decision was taken.
C4_Witness ==
    /\ decision # None
    /\ request.key
    /\ request.groq.status = "500"
    /\ request.ollama.status = "raise"

Vocabulary == {"click", "type", "press_enter", "scroll", "wait", "done"}

\* C5: whatever the providers reply, the Decision Engine returns one
\* action of the closed vocabulary click, type, press_enter, scroll, wait,
\* done.
C5_DecisionIsAnAction ==
    decision # None
        => /\ decision.action.type = "dict"
           /\ "action" \in DOMAIN decision.action.items
           /\ decision.action.items.action \in Vocabulary

\* C6: no failure of a run leaves its thread: the thread never ends by an
\* exception, and whichever failure occurred it ends normally.
C6_NoExceptionLeavesThread ==
    /\ pc # "crashed"
    /\ pc \in {"not_started", "safe_run", "goto", "extract", "read", "decide",
               "execute", "count", "loop_end", "except", "poll", "close",
               "with_exit", "safe_except", "finished"}

\* The browser failed to launch and the thread ended normally.
C6_Witness ==
    /\ pc = "finished"
    /\ browser = "none"
    /\ keepAlives = 0

\* C7: every way the loop ends once the browser is launched leads to the
\* except clause or the end of the loop, from which the next step is the
\* keep-alive phase, and browser.close() is not invoked before the loop has
\* ended and keep-alive has started.
C7_KeepAliveFollowsLoop ==
    /\ [](closeCalls > 0 => (keepAlives > 0 /\ reason # "running"))
    /\ [](pc \in {"poll", "close"} => (keepAlives > 0 /\ reason # "running"))
    /\ [][(reason = "running" /\ reason' # "running")
            => (pc' \in {"loop_end", "except"} /\ closeCalls' = 0
                /\ browser' = "open")]_vars
    /\ [][(pc \in {"loop_end", "except"} /\ pc' # pc)
            => (pc' = "poll" /\ keepAlives' = keepAlives + 1
                /\ closeCalls' = 0 /\ browser' = "open")]_vars

\* Keep-alive entered after an exception ended the loop, the browser open.
C7_Witness ==
    /\ pc = "poll"
    /\ reason = "exception"
    /\ closeCalls = 0
    /\ browser = "open"

\* C8: the keep-alive phase, once entered, ends; it leaves the poll loop
\* when a probe fails or the idle window has elapsed, and not otherwise;
\* it leaves it only to browser.close(), and after browser.close(),
\* whether or not that raised, the function returns.
C8_KeepAliveEnds ==
    /\ (pc = "poll") ~> (pc = "with_exit" /\ closeCalls = 1)
    /\ [][(pc = "poll" /\ pc' # "poll")
            => (pc' = "close"
                /\ (~windowOpen \/ elapsed >= BROWSER_KEEP_ALIVE))]_vars
    /\ [][(pc = "poll" /\ (~windowOpen \/ elapsed >= BROWSER_KEEP_ALIVE)
            /\ pc' = "poll") => UNCHANGED << elapsed, probes >>]_vars
    /\ [][(pc = "close" /\ pc' # "close")
            => (pc' = "with_exit" /\ closeCalls' = closeCalls + 1)]_vars

\* The user closed the window during keep-alive: the probe after the first
\* failed before the idle window had elapsed, and the browser was closed.
C8_Witness ==
    /\ pc = "with_exit"
    /\ ~windowOpen
    /\ probes = 2
    /\ elapsed < BROWSER_KEEP_ALIVE
    /\ closeCalls = 1

\* C9: for a click or type action whose element index is missing, negative
\* or not below the number of extracted elements, _execute_action invokes
\* no page operation, raises nothing and returns continue.
C9_OutOfRangeIsNoOp ==
    (/\ outcome # None
     /\ get(call.action, "action", "wait") \in {"click", "type"}
     /\ get(call.action, "element", "-1") \in DOMAIN IntText
     /\ LET idx == IntText[get(call.action, "element", "-1")]
        IN  idx < 0 \/ idx >= call.n)
        => outcome = [cont |-> TRUE, ops |-> <<>>, raised |-> FALSE]

\* A click on the index just past the end of a non-empty element list.
C9_Witness ==
    /\ outcome # None
    /\ call.n = 1
    /\ get(call.action, "action", "wait") = "click"
    /\ get(call.action, "element", "-1") \in DOMAIN IntText
    /\ IntText[get(call.action, "element", "-1")] = call.n

\* C10: trigger_automation, once it has started the thread, can return
\* wherever the thread is, and what it returns is None.
C10_TriggerDoesNotWait ==
    /\ caller = "in_trigger" => ENABLED TriggerReturns
    /\ caller = "returned" => result = "None"

\* The caller has its None while the run has not yet launched the browser.
C10_Witness ==
    /\ caller = "returned"
    /\ result = "None"
    /\ pc = "safe_run"

\* The run whose thread or frame a step changed.
Touched(r) == threads'[r] # threads[r] \/ frames'[r] # frames[r]

\* C11: under any interleaving of concurrent runs, a step that changes the
\* thread position or the locals (step, waits, history, elements, browser
\* and page handle, termination reason) of one run changes nothing of any
\* other run, and the counters and the termination reason of every run
\* follow from that run's own history.
C11_RunsShareNoState ==
    /\ [][\A r \in RunIds :
            Touched(r) => \A q \in RunIds \ {r} : ~Touched(q)]_vars
    /\ [](\A r \in RunIds :
            /\ threads[r] \in {"extract", "read", "decide"}
                => frames[r].waits = TrailingWaits(frames[r].history)
            /\ threads[r] \in {"extract", "read", "decide"}
                => Len(frames[r].history) <= frames[r].step
            /\ frames[r].reason = "repeated-wait-abort"
                => TrailingWaits(frames[r].history) = WaitLimit
            /\ frames[r].reason = "done-signal"
                => frames[r].history[Len(frames[r].history)].action = "done"
            /\ frames[r].closeCalls > 0 => frames[r].reason # "running")

\* Two runs in their loops at once: one has taken two decisions and waited
\* twice, the other has ended by the done signal and closed its browser.
C11_Witness ==
    /\ threads[1] = "extract"
    /\ frames[1].waits = 2
    /\ frames[1].browser = "open"
    /\ threads[2] = "finished"
    /\ frames[2].reason = "done-signal"
    /\ frames[2].closeCalls = 1

\* A provider call that failed as the claim lists it: a non-200 status, a
\* network error or timeout, or a success body that cannot be read.
CallFailed(o) == o.status # "200" \/ o.body # "ok"

\* C12: within one decision the providers are called in the order primary,
\* fallback, each at most once; the primary is called exactly when a key is
\* configured, the fallback exactly when the primary was not configured or
\* failed, and when the primary succeeded the decision is made of its
\* content alone.
C12_ProvidersInOrderAtMostOnce ==
    decision # None
        => /\ decision.calls \in {<<"groq">>, <<"ollama">>, <<"groq", "ollama">>}
           /\ (\E i \in 1..Len(decision.calls) : decision.calls[i] = "groq")
                <=> request.key
           /\ (\E i \in 1..Len(decision.calls) : decision.calls[i] = "ollama")
                <=> (~request.key \/ CallFailed(request.groq))
           /\ (request.key /\ ~CallFailed(request.groq))
                => decision.action = ParseAction(strip(request.groq.content))

\* The primary answered 200 with a body that cannot be read, and the
\* fallback was asked after it and answered.
C12_Witness ==
    /\ decision # None
    /\ request.key
    /\ request.groq = [status |-> "200", body |-> "bad"]
    /\ request.ollama.status = "200"
    /\ request.ollama.body = "ok"
    /\ decision.calls = <<"groq", "ollama">>
    /\ decision.action.type = "dict"

\* C13: a step whose extraction yields nothing (nothing found, or an
\* exception caught inside the extractor) takes no decision and executes no
\* action, leaves waits and history as they were and raises nothing; the
\* for statement takes its next step, which is the end of the loop only
\* when the budget is used up.  A decision is only ever taken, and an
\* action only ever executed, on a non-empty extraction.
C13_EmptyExtractionSkipsStep ==
    /\ [](pc \in {"read", "decide", "execute", "count"} => elements > 0)
    /\ [][(pc = "extract" /\ elements' = 0 /\ (pc' # pc \/ step' # step))
            => /\ waits' = waits
               /\ history' = history
               /\ llm_action' = NoAction
               /\ \/ pc' = "extract" /\ step' = step + 1 /\ reason' = "running"
                  \/ /\ step + 1 = MAX_LLM_STEPS
                     /\ pc' = "loop_end"
                     /\ reason' = "step-budget-exhausted"]_vars

\* The third step of a run begins after one decision (a wait) and one step
\* that was skipped for lack of elements: the wait count is still one.
C13_Witness ==
    /\ pc = "extract"
    /\ step = 2
    /\ Len(history) = 1
    /\ waits = 1
    /\ reason = "running"

\* The positions of the thread inside the control loop.
LoopPcs == {"extract", "read", "decide", "execute", "count"}

Shown(el) ==
    /\ el.width # 0
    /\ el.height # 0
    /\ el.display # "none"
    /\ el.visibility # "hidden"
    /\ el.opacity # "0"

Selected(el) == \E k \in 1..Len(selectors) : Matches(k, el)

\* Where the loops come upon an element first: its first selector, then
\* its position in the document.
FirstSelector(el) ==
    CHOOSE k \in 1..Len(selectors) :
        Matches(k, el) /\ \A j \in 1..(k - 1) : ~Matches(j, el)

FoundBefore(m, n) ==
    \/ FirstSelector(dom[m]) < FirstSelector(dom[n])
    \/ FirstSelector(dom[m]) = FirstSelector(dom[n]) /\ m < n

\* The de-duplication key of a returned element, as the tuple of its parts.
KeyTuple(el) == << el.tag, el.id, el.text, el.placeholder >>

\* The de-duplication key of a returned element, as the script writes it.
KeyText(el) == KeyOf(el.tag, el.id, el.text, el.placeholder)

\* C15: every result of _get_page_elements has at most 35 elements, each
\* made of an element of the document that has a box of non-zero width and
\* height and is not display:none, visibility:hidden or opacity 0; the
\* elements are in the order the selector passes found them, and when the
\* cap was reached every shown element found before the last one returned
\* is itself returned or has the key of one that is.
C15_AtMostCapAndShown ==
        \A p \in 1..Len(extracted) :
            LET els == extracted[p].elements
            IN  /\ Len(els) <= Cap
                /\ \A i \in 1..Len(els) :
                       /\ els[i].node \in 1..Len(dom)
                       /\ Selected(dom[els[i].node])
                       /\ Shown(dom[els[i].node])
                /\ \A i \in 1..(Len(els) - 1) : FoundBefore(els[i].node, els[i + 1].node)
                /\ Len(els) = Cap
                     => \A n \in 1..Len(dom) :
                           (/\ Selected(dom[n])
                            /\ Shown(dom[n])
                            /\ \A i \in 1..Len(els) : els[i].node # n
                            /\ FoundBefore(n, els[Cap].node))
                               => \E i \in 1..Len(els) :
                                     KeyText(els[i]) = KeyText(Pushed(dom[n], n, 0))

\* A document with hidden elements and more than 35 shown ones, found by
\* three selectors, of which a pass returned 35.
C15_Witness ==
    /\ Len(extracted) >= 1
    /\ Len(extracted[1].elements) = Cap
    /\ \E n \in 1..Len(dom) : Selected(dom[n]) /\ ~Shown(dom[n])
    /\ \E n \in 1..Len(dom) : FirstSelector(dom[n]) = 3 /\ Shown(dom[n])
    /\ Cardinality({n \in 1..Len(dom) : Selected(dom[n]) /\ Shown(dom[n])}) > Cap

IsSite(s) == DOMAIN s = {"url", "name"}

\* C17: the site lookup yields a site for every intent and destination;
\* for an intent of the site map it is the map's pair, whatever the
\* destination and the pickup; for any other intent its name is "Google"
\* and its url is the search-engine query that contains the destination.
C17_SiteRouterTotal ==
    routed # None
        => /\ IsSite(routed)
           /\ route.intent \in DOMAIN SITE_MAP => routed = SITE_MAP[route.intent]
           /\ route.intent \notin DOMAIN SITE_MAP
                => /\ routed.name = "Google"
                   /\ Contains(routed.url, route.destination)
                   /\ SubSeq(routed.url, 1, Len(SearchPrefix)) = SearchPrefix
                   /\ Len(routed.url)
                        = Len(SearchPrefix) + Len(route.destination) + Len(SearchSuffix)

\* An intent that differs from a key of the map by its case, with a
\* destination of two words: the fallback was returned.
C17_Witness ==
    /\ routed # None
    /\ route.intent = "Taxi_Booking"
    /\ route.destination = <<"N","e","w"," ","D","e","l","h","i">>
    /\ routed.name = "Google"

\* The reply the Decision Engine parses for the request.
RawReply == _call_llm(request.key, request.groq, request.ollama).text

\* The action objects embedded in a reply: the values of its substrings
\* that are valid JSON objects with an action of the vocabulary.
EmbeddedActions(reply) ==
    { json_loads(SubSeq(reply, i, j)).value :
        <<i, j>> \in { p \in (1..Len(reply)) \X (1..Len(reply)) :
                         /\ p[1] < p[2]
                         /\ json_loads(SubSeq(reply, p[1], p[2])).ok
                         /\ IsDict(json_loads(SubSeq(reply, p[1], p[2])).value)
                         /\ get(json_loads(SubSeq(reply, p[1], p[2])).value.items,
                                "action", "?") \in Vocabulary } }

\* C18: when the reply is not valid JSON but has a valid JSON action
\* object embedded in prose, the Decision Engine returns an embedded
\* action object and not the "Parse error" wait.
C18_EmbeddedObjectIsReturned ==
    (/\ decision # None
     /\ ~json_loads(RawReply).ok
     /\ EmbeddedActions(RawReply) # {})
        => /\ decision.action \in EmbeddedActions(RawReply)
           /\ decision.action # ParseError

TerminationReasons ==
    {"done-signal", "payment-detected", "step-budget-exhausted", "repeated-wait-abort"}

\* C19: a control loop that has started leaves the running state only with
\* one of the four termination reasons done-signal, payment-detected,
\* step-budget-exhausted and repeated-wait-abort.
C19_LoopEndsByOneOfFour ==
    [][(pc \in LoopPcs /\ pc' \notin LoopPcs)
        => (pc' = "loop_end" /\ reason' \in TerminationReasons)]_vars

\* The kind of the action the step decided on, as the executor reads it.
ActionKind == get(llm_action.items, "action", "wait")

ValidIndexCall ==
    /\ get(call.action, "action", "wait") \in {"click", "type"}
    /\ get(call.action, "element", "-1") \in DOMAIN IntText
    /\ IntText[get(call.action, "element", "-1")] >= 0
    /\ IntText[get(call.action, "element", "-1")] < call.n

\* The operations the call attempts when none raises.
WantedOps ==
    IF get(call.action, "action", "wait") = "click"
    THEN <<"locate", "click">>
    ELSE <<"locate", "click", "fill", "type">>

\* C21: for a click or type on a valid element index, whichever operation
\* raises (resolving the locator, the click, the fill, the typing), no
\* exception leaves _execute_action and it returns continue; when one
\* raised, the operations after it are not attempted and one Tab key press
\* is, whose own failure is swallowed; when none raised, no Tab is pressed.
C21_ActionFailureIsRecovered ==
    (outcome # None /\ ValidIndexCall)
        => /\ outcome.raised = FALSE
           /\ outcome.cont = TRUE
           /\ call.fault.at \in 1..Len(WantedOps)
                => outcome.ops = SubSeq(WantedOps, 1, call.fault.at) \o <<"Tab">>
           /\ call.fault.at \notin 1..Len(WantedOps) => outcome.ops = WantedOps

\* A type action whose fill raised and whose Tab recovery raised as well.
C21_Witness ==
    /\ outcome # None
    /\ ValidIndexCall
    /\ get(call.action, "action", "wait") = "type"
    /\ call.fault = [at |-> 3, tab |-> TRUE]
    /\ outcome.ops = <<"locate", "click", "fill", "Tab">>

(***************************************************************************)
(* C22.  _build_locator tries its strategies in the order id, aria label,  *)
(* placeholder, visible text (tag button or a only), name scoped to tag,   *)
(* and skips a strategy whose attribute is empty; the first one that       *)
(* becomes visible is returned and none after it is tried; when none does, *)
(* the locator by tag name is returned.                                    *)
(***************************************************************************)
Rank(by) == CHOOSE i \in 1..Len(StrategyNames) : StrategyNames[i] = by

Applicable(el_info, by) ==
    CASE by = "id" -> el_info.id # ""
      [] by = "ariaLabel" -> el_info.ariaLabel # ""
      [] by = "placeholder" -> el_info.placeholder # ""
      [] by = "text" -> el_info.text # "" /\ el_info.tag \in {"button", "a"}
      [] by = "name" -> el_info.name # ""

Wanted(el_info, by) ==
    CASE by = "id" -> Locator("id", "", el_info.id)
      [] by = "ariaLabel" -> Locator("ariaLabel", "", el_info.ariaLabel)
      [] by = "placeholder" -> Locator("placeholder", "", el_info.placeholder)
      [] by = "text" -> Locator("text", "", el_info.text)
      [] by = "name" -> Locator("name", el_info.tag, el_info.name)

Range(seq) == { seq[i] : i \in 1..Len(seq) }

C22_StrategiesInOrderFirstVisibleWins ==
    located # None =>
        LET el == target.el_info
            tried == located.tried
            usable == { by \in Range(StrategyNames) : Applicable(el, by) }
            winners == usable \cap target.visible
        IN  /\ Range(tried) \subseteq usable
            /\ \A i, j \in 1..Len(tried) : i < j => Rank(tried[i]) < Rank(tried[j])
            /\ \A by \in usable :
                  by \in Range(tried)
                      <=> \A w \in winners : Rank(by) <= Rank(w)
            /\ IF winners = {}
               THEN located.loc = Locator("tag", el.tag, "")
               ELSE /\ located.loc = Wanted(el, tried[Len(tried)])
                    /\ tried[Len(tried)] \in winners
                    /\ \A i \in 1..(Len(tried) - 1) : tried[i] \notin target.visible

\* The id and the aria label do not become visible, the placeholder does,
\* and the text and the name, which would have, are not tried.
C22_Witness ==
    /\ located # None
    /\ target.el_info.tag = "button"
    /\ target.visible = {"placeholder", "text", "name"}
    /\ located.tried = <<"id", "ariaLabel", "placeholder">>
    /\ located.loc = Locator("placeholder", "", "City")

(***************************************************************************)
(* C23.  Every action the executor handles as a wait, one without an       *)
(* action field included, is counted by the control loop as a wait: the    *)
(* consecutive-wait counter goes up by one.                                *)
(***************************************************************************)
HandledAsWait(action) == get(action, "action", "wait") = "wait"

C23_ExecutorWaitIsCounted ==
    [][(pc = "count" /\ pc' # "count" /\ HandledAsWait(llm_action.items))
            => waits' = waits + 1]_vars

(***************************************************************************)
(* C24.  Each decision appends exactly one history line, after the         *)
(* decision is obtained and before the action is executed, and nothing     *)
(* else changes the history; the prompt of the decision holds the last     *)
(* five history lines at most, oldest first ("None yet" when there is      *)
(* none); each step obtains one action.                                    *)
(***************************************************************************)
PromptLines(text) == [i \in 1..((Len(text) + 1) \div 2) |-> text[2 * i - 1]]

LineStarts(text) == {1} \cup { i + 1 : i \in { k \in 1..Len(text) : text[k] = "\n" } }

BeginsAt(text, at, prefix) ==
    /\ at + Len(prefix) - 1 <= Len(text)
    /\ SubSeq(text, at, at + Len(prefix) - 1) = prefix

C25_DenseIndicesOneLineEach ==
    \A p \in 1..Len(extracted) :
        LET els == extracted[p].elements
            text == extracted[p].text
            starts == IF els = <<>> THEN {} ELSE LineStarts(text)
        IN  /\ \A i \in 1..Len(els) : els[i].index = i - 1
            /\ Cardinality(starts) = Len(els)
            /\ \A at \in starts :
                  BeginsAt(text, at,
                           <<"[">> \o Digits(Cardinality({ x \in starts : x < at }))
                           \o <<"]">>)

(***************************************************************************)
(* C26.  When _launch_browser fails, at whichever of its calls, the        *)
(* exception reaches the except clause of _safe_run, which logs it and     *)
(* ends the thread: the control loop is not started, no decision is asked  *)
(* for, _keep_alive is not entered, and no browser is left open.           *)
(***************************************************************************)
LaunchFailed == pc \in {"safe_except", "finished"} /\ reason = "running"

C26_LaunchFailureEndsAtSafeRun ==
    /\ [][(pc = "safe_run" /\ pc' \notin {"safe_run", "goto"})
            => (pc' = "safe_except" /\ LaunchFailed')]_vars
    /\ [][LaunchFailed => LaunchFailed']_vars
    /\ [][(pc = "safe_except") => pc' \in {"safe_except", "finished"}]_vars
    /\ [](LaunchFailed
            => /\ browser \in {"none", "closed"}
               /\ ~windowOpen
               /\ keepAlives = 0 /\ closeCalls = 0 /\ probes = 0
               /\ step = 0 /\ history = <<>> /\ llm_action = NoAction)

\* The browser had started and new_context or new_page raised: the thread
\* has ended, the browser is stopped and _keep_alive was never called.
C26_Witness ==
    /\ pc = "finished"
    /\ reason = "running"
    /\ browser = "closed"
    /\ keepAlives = 0

(***************************************************************************)
(* C27.  Every iteration of the control loop takes one value of the step   *)
(* budget, an iteration whose extraction was empty included: the loop      *)
(* makes at most MAX_LLM_STEPS iterations, so at most MAX_LLM_STEPS        *)
(* decisions and history lines; an empty extraction makes no decision and  *)
(* goes on to the next value of step, and a run whose extractions were all *)
(* empty leaves the loop by budget exhaustion at the last value of step    *)
(* with an empty history.                                                  *)
(***************************************************************************)
EmptyExtraction ==
    /\ pc = "extract"
    /\ pc' \in {"extract", "loop_end"}
    /\ (pc' # pc \/ step' # step)

C27_EveryIterationCounts ==
    /\ [](pc \in LoopPcs
            => /\ step + 1 <= MAX_LLM_STEPS
               /\ Len(history) <= (IF pc \in {"execute", "count"} THEN step + 1 ELSE step))
    /\ [](Len(history) <= MAX_LLM_STEPS)
    /\ [][(pc \in LoopPcs /\ pc' \in LoopPcs) => step' \in {step, step + 1}]_vars
    /\ [][EmptyExtraction
            => /\ history' = history
               /\ llm_action' = NoAction
               /\ pc' = "extract" => step' = step + 1
               /\ pc' = "loop_end"
                    => (reason' = "step-budget-exhausted" /\ step + 1 = MAX_LLM_STEPS
                        /\ step' = step)]_vars
    /\ [](pc = "loop_end" /\ reason = "step-budget-exhausted"
            => step + 1 = MAX_LLM_STEPS)

\* Three iterations, each with an empty extraction: the loop has ended by
\* budget exhaustion and no decision was taken.
C27_Witness ==
    /\ pc = "loop_end"
    /\ reason = "step-budget-exhausted"
    /\ MAX_LLM_STEPS = 3
    /\ step = 2
    /\ history = <<>>
    /\ llm_action = NoAction

(***************************************************************************)
(* C28.  In a run whose browser was launched, _keep_alive is entered once  *)
(* and browser.close() is invoked once, whether the loop ended by itself   *)
(* or by an exception, the user closing the window among its causes:       *)
(* neither happens twice, each way out of the loop leads to _keep_alive,   *)
(* and a launched run that has ended has done both.                        *)
(***************************************************************************)
Launched == pc \in LoopPcs \cup {"goto", "loop_end", "except"} \/ reason # "running"

C28_KeepAliveAndCloseOnce ==
    /\ [](keepAlives <= 1 /\ closeCalls <= 1 /\ closeCalls <= keepAlives)
    /\ [](keepAlives = 1 => Launched)
    /\ [][(pc \in {"loop_end", "except"} /\ pc' # pc)
            => (pc' = "poll" /\ keepAlives = 0 /\ keepAlives' = 1)]_vars
    /\ [][(keepAlives' # keepAlives) => pc \in {"loop_end", "except"}]_vars
    /\ [][(pc = "poll" /\ pc' # pc) => pc' = "close"]_vars
    /\ [][(pc = "close" /\ pc' # pc) => (closeCalls = 0 /\ closeCalls' = 1)]_vars
    /\ [][(closeCalls' # closeCalls) => pc = "close"]_vars
    /\ []((Launched /\ pc \in {"with_exit", "safe_except", "finished"})
            => (keepAlives = 1 /\ closeCalls = 1))

\* The user closed the window during the loop, the exception that followed
\* ended the loop, and the run has ended after one _keep_alive and one
\* browser.close().
C28_Witness ==
    /\ pc = "finished"
    /\ reason = "exception"
    /\ ~windowOpen
    /\ keepAlives = 1
    /\ closeCalls = 1
    /\ probes = 1

(***************************************************************************)
(* C29.  process_session_input takes the dialog forward only, through      *)
(* ask_hotel, ask_budget, ask_checkin, ask_checkout, ask_guests, done, by  *)
(* one stage per input at most; a text in which no budget is found and no  *)
(* skip word, or no date, leaves the session as it was and asks for the    *)
(* same stage again; without a session, or at done, it returns None and    *)
(* changes nothing; it reports complete exactly on the step from           *)
(* ask_guests to done.                                                     *)
(***************************************************************************)
Stage(name) == CHOOSE i \in 1..Len(Stages) : Stages[i] = name

\* This step is a call of the named function of session.py.
Called(name) ==
    /\ returned'.call = name
    /\ << _active_session, returned >>' # << _active_session, returned >>

Complete(value) == IsDict(value) /\ get(value.items, "complete", FALSE)

C30_DatesSetBeforeGuests ==
    /\ []((_active_session # None /\ _active_session.step \in {"ask_guests", "done"})
            => (_active_session.checkin # None /\ _active_session.checkout # None))
    /\ [](returned.value.type # "raised")
    /\ [][Called("start_hotel_session")
            => /\ _active_session' # None
               /\ returned'.value = _active_session'
               /\ _active_session'.step
                     = (IF _active_session'.hotel = <<>> THEN "ask_hotel" ELSE "ask_budget")
               /\ _active_session'.checkin = None
               /\ _active_session'.checkout = None
               /\ _active_session'.price_min = None
               /\ _active_session'.price_max = None
               /\ _active_session'.adults = 2
               /\ _active_session'.children = 0]_vars

\* A session started with the hotel known, so at ask_budget, has reached
\* ask_guests with both dates.
C30_Witness ==
    /\ _active_session # None
    /\ _active_session.step = "ask_guests"
    /\ _active_session.hotel = Sitara
    /\ _active_session.price_min = None
    /\ _active_session.checkin = Some(2)
    /\ _active_session.checkout = Some(1)

====
